---- MODULE Spec2Model ----
(***************************************************************************)
(* Kairo: conversational registration assistant.                           *)
(*                                                                         *)
(* The repository holds several generations of the kai-conversation edge   *)
(* function side by side, and one client hook (useConversation) that talks *)
(* to whichever of them is deployed.  The model keeps every generation as  *)
(* its own handler:                                                        *)
(*   "P1"  src/unnamed/part_001        regex extraction, per-turn state    *)
(*   "P2"  src/unnamed/part_002        regex extraction + age validation   *)
(*   "P3"  src/unnamed/part_003:1-412  regex extraction, merged context    *)
(*   "P0"  src/unnamed/part_000        structured extractor, filter        *)
(*   "V1"  index.ts:1-810              spread merge, full-session lookup   *)
(*   "V2"  index.ts:811-1289           structured extractor, org filter    *)
(*   "V3"  index.ts:1290-2389          spread merge, requested session     *)
(*                                                                         *)
(* JavaScript values are tagged records, objects are functions from keys   *)
(* to values, strings the code inspects character by character are         *)
(* sequences of one-character strings.                                     *)
(***************************************************************************)
EXTENDS Integers, Sequences, FiniteSets, TLC

VARIABLES
    variant,      \* which generation of the edge function serves the turns
    inventory,    \* rows of the sessions table with their program join
    clientConvId, \* useConversation: conversationId (React state)
    clientCtx,    \* useConversation: context (React state)
    clientState,  \* useConversation: state (React state)
    isLoading,    \* useConversation: isLoading
    req,          \* request in flight to the edge function, or NoReq
    resp,         \* turn result on its way back to the client, or NoResp
    db,           \* the conversations table: id -> [state, context]
    turn,         \* bookkeeping of the turn being processed / last processed
    turns,        \* number of messages sent so far
    ui,           \* what the chat shows of a failure: onError / onFallbackToForm
    fCrit,        \* filter runs:    criteria handed to the filter
    fOut,         \* filter runs:    sessions returned by the last filter run
    fRun          \* filter runs:    which filter produced fOut

vars == <<variant, inventory, clientConvId, clientCtx, clientState, isLoading, req, resp,
          db, turn, turns, ui, fCrit, fOut, fRun>>

convVars == <<clientConvId, clientCtx, clientState, isLoading, req, resp, db, turn, turns, ui>>
filterVars == <<fCrit, fOut, fRun>>

-----------------------------------------------------------------------------
(* Bounds                                                                  *)

MaxTurns == 2
MaxSessions == 2

-----------------------------------------------------------------------------
(* JavaScript values                                                       *)

Undefined == [t |-> "undefined"]
Null == [t |-> "null"]
NaNv == [t |-> "nan"]
Num(n) == [t |-> "num", v |-> n]
Str(s) == [t |-> "str", v |-> s]
Arr(a) == [t |-> "arr", v |-> a]
Text(cs) == [t |-> "text", cs |-> cs]

\* ToBoolean: undefined, null, NaN, 0 and "" are falsy; every array is truthy
Truthy(x) ==
    CASE x.t = "num" -> x.v # 0
      [] x.t = "str" -> x.v # ""
      [] x.t = "text" -> x.cs # <<>>
      [] x.t = "arr" -> TRUE
      [] OTHER -> FALSE

\* property read: a missing key reads as undefined
Get(o, k) == IF k \in DOMAIN o THEN o[k] ELSE Undefined

EmptyObj == [k \in {} |-> Null]

\* { ...a, ...b }
Spread(a, b) ==
    [k \in (DOMAIN a) \cup (DOMAIN b) |-> IF k \in DOMAIN b THEN b[k] ELSE a[k]]

\* o.k = v
SetKey(o, k, v) == [j \in (DOMAIN o) \cup {k} |-> IF j = k THEN v ELSE o[j]]

\* relational operators on numbers; a comparison with NaN or undefined is false
LtV(a, b) == a.t = "num" /\ b.t = "num" /\ a.v < b.v
GeV(a, b) == a.t = "num" /\ b.t = "num" /\ a.v >= b.v
GtV(a, b) == a.t = "num" /\ b.t = "num" /\ a.v > b.v

\* Array.prototype.includes
Includes(seq, x) == \E i \in DOMAIN seq : seq[i] = x

\* Array.prototype.slice(0, n)
Take(seq, n) == IF Len(seq) <= n THEN seq ELSE SubSeq(seq, 1, n)

-----------------------------------------------------------------------------
(* Character-level helpers                                                 *)

Digits == {"0", "1", "2", "3", "4", "5", "6", "7", "8", "9"}

DigitVal(c) ==
    CASE c = "0" -> 0 [] c = "1" -> 1 [] c = "2" -> 2 [] c = "3" -> 3
      [] c = "4" -> 4 [] c = "5" -> 5 [] c = "6" -> 6 [] c = "7" -> 7
      [] c = "8" -> 8 [] c = "9" -> 9

\* first index >= i of cs that holds no digit (Len(cs)+1 when there is none)
RECURSIVE DigitsEnd(_, _)
DigitsEnd(cs, i) ==
    IF i > Len(cs) \/ cs[i] \notin Digits THEN i ELSE DigitsEnd(cs, i + 1)

\* value of the digit string cs[i..j-1]
RECURSIVE DigitsValue(_, _, _, _)
DigitsValue(cs, i, j, acc) ==
    IF i >= j THEN acc ELSE DigitsValue(cs, i + 1, j, 10 * acc + DigitVal(cs[i]))

\* parseInt on a string without sign or leading blanks: the leading digits,
\* NaN when the string does not start with a digit
ParseInt(cs) ==
    LET e == DigitsEnd(cs, 1)
    IN IF e = 1 THEN NaNv ELSE Num(DigitsValue(cs, 1, e, 0))

\* s.split(':')[0]
RECURSIVE SplitHeadFrom(_, _)
SplitHeadFrom(cs, i) ==
    IF i > Len(cs) \/ cs[i] = ":" THEN SubSeq(cs, 1, i - 1)
    ELSE SplitHeadFrom(cs, i + 1)

SplitHead(cs) == SplitHeadFrom(cs, 1)

UpperCase ==
    <<"A", "B", "C", "D", "E", "F", "G", "H", "I", "J", "K", "L", "M",
      "N", "O", "P", "Q", "R", "S", "T", "U", "V", "W", "X", "Y", "Z">>

LowerCase ==
    <<"a", "b", "c", "d", "e", "f", "g", "h", "i", "j", "k", "l", "m",
      "n", "o", "p", "q", "r", "s", "t", "u", "v", "w", "x", "y", "z">>

IsUpper(c) == \E i \in DOMAIN UpperCase : UpperCase[i] = c
IsLower(c) == \E i \in DOMAIN LowerCase : LowerCase[i] = c

LowerOf(c) ==
    IF IsUpper(c) THEN LowerCase[CHOOSE i \in DOMAIN UpperCase : UpperCase[i] = c] ELSE c

\* String.prototype.toLowerCase
ToLowerCase(cs) == [i \in DOMAIN cs |-> LowerOf(cs[i])]

\* String.prototype.includes
StrIncludes(cs, sub) ==
    \E i \in 0..(Len(cs) - Len(sub)) :
        \A j \in 1..Len(sub) : cs[i + j] = sub[j]

\* the regular expression /\[(\d+),(\d+)\)/ tried at position i
AgeRangeAt(cs, i) ==
    LET j == DigitsEnd(cs, i + 1)
        k == DigitsEnd(cs, j + 1)
    IN /\ cs[i] = "["
       /\ j > i + 1 /\ j <= Len(cs) /\ cs[j] = ","
       /\ k > j + 1 /\ k <= Len(cs) /\ cs[k] = ")"

\* age_range.match(/\[(\d+),(\d+)\)/): leftmost match, captures parsed by
\* parseInt; matched = FALSE stands for the null result
AgeRangeMatch(cs) ==
    IF \E i \in DOMAIN cs : AgeRangeAt(cs, i)
    THEN LET i == CHOOSE p \in DOMAIN cs :
                     AgeRangeAt(cs, p) /\ \A q \in 1..(p - 1) : ~AgeRangeAt(cs, q)
             j == DigitsEnd(cs, i + 1)
             k == DigitsEnd(cs, j + 1)
         IN [matched |-> TRUE,
             minAge |-> DigitsValue(cs, i + 1, j, 0),
             maxAge |-> DigitsValue(cs, j + 1, k, 0)]
    ELSE [matched |-> FALSE, minAge |-> 0, maxAge |-> 0]

-----------------------------------------------------------------------------
(* The sessions table                                                      *)

\* new Date().toISOString().split('T')[0], as a day number
Today == 100

\* a text column that came back null (programs.name, sessions.start_time); a
\* missing age_range is the empty text, which the code treats alike
Missing == <<"null">>

Program(org, name, range) ==
    [joined |-> TRUE, organization_id |-> org, name |-> name, age_range |-> range]

\* the program join came back null
NoProgram ==
    [joined |-> FALSE, organization_id |-> "", name |-> <<>>, age_range |-> <<>>]

Session(id, prog, status, enrolled, cap, day, time, date) ==
    [id |-> id, program |-> prog, status |-> status, enrolled_count |-> enrolled,
     capacity |-> cap, day_of_week |-> day, start_time |-> time, start_date |-> date]

Range4to6 == <<"[", "4", ",", "6", ")">>
Range6to12 == <<"[", "6", ",", "1", "2", ")">>
RangeClosed == <<"[", "4", ",", "6", "]">>
Time10 == <<"1", "0", ":", "0", "0">>
Time14 == <<"1", "4", ":", "0", "0">>
Time17 == <<"1", "7", ":", "0", "0">>
NameSoc == <<"S", "o", "c">>
NameSwim == <<"S", "w", "i", "m">>
KeySoc == <<"s", "o", "c">>

SessionPool ==
    { Session("s1", Program("org1", NameSoc, Range4to6), "active", 3, 10, 3, Time10, 120),
      Session("s2", Program("org2", NameSoc, Range4to6), "active", 0, 10, 3, Time10, 120),
      Session("s3", Program("org1", NameSoc, Range4to6), "active", 10, 10, 3, Time10, 120),
      Session("s5", Program("org1", NameSoc, Range4to6), "cancelled", 2, 10, 3, Time10, 120),
      Session("s6", Program("org1", NameSwim, Range6to12), "active", 2, 10, 1, Time17, 100),
      Session("s7", Program("org1", NameSoc, RangeClosed), "active", 2, 10, 3, Time10, 120),
      Session("s8", Program("org1", NameSoc, Range6to12), "full", 10, 10, 3, Time10, 120),
      Session("s9", NoProgram, "active", 2, 10, 3, Time10, 120),
      Session("s11", Program("org1", Missing, Range4to6), "active", 2, 10, 3, Time10, 120),
      Session("s12", Program("org1", NameSoc, Range4to6), "active", 2, 10, 3, Missing, 120),
      Session("s13", Program("org1", NameSoc, <<>>), "active", 2, 10, 3, Time10, 120),
      Session("s10", Program("org1", NameSoc, Range4to6), "active", 0, 10, 3, Time14, 120) }

\* tables of at most n rows with distinct ids, in every row order
InventoriesUpTo(n) ==
    UNION { { inv \in [1..m -> SessionPool] :
                \A i, j \in 1..m : i # j => inv[i].id # inv[j].id } : m \in 0..n }

\* supabase.from('sessions').select(...) with the filters the call site chains:
\* .eq('status','active') when onlyActive, programs!inner when inner, and
\* .gte('start_date', today) always.  failed = TRUE is the { error } outcome.
SelectSessions(inv, onlyActive, inner, failed) ==
    IF failed THEN [error |-> TRUE, data |-> <<>>]
    ELSE [error |-> FALSE,
          data |-> SelectSeq(inv, LAMBDA s :
                      /\ onlyActive => s.status = "active"
                      /\ inner => s.program.joined
                      /\ s.start_date >= Today)]

\* the RecommendationResult built by the .map(...) of each fetch function
Projection(s) ==
    [sessionId |-> s.id, capacity |-> s.capacity, enrolledCount |-> s.enrolled_count,
     spotsRemaining |-> s.capacity - s.enrolled_count]

MapProjection(seq) == [i \in DOMAIN seq |-> Projection(seq[i])]

\* preferredTimeOfDay && preferredTimeOfDay !== 'any': the branch that reads
\* session.start_time
TimeDereferenced(preferredTimeOfDay) ==
    Truthy(preferredTimeOfDay) /\ preferredTimeOfDay # Str("any")

\* the time-of-day test with the afternoon lasting until 19
TimeOfDayRejects_Until19(preferredTimeOfDay, s) ==
    /\ Truthy(preferredTimeOfDay) /\ preferredTimeOfDay # Str("any")
    /\ LET hour == ParseInt(SplitHead(s.start_time))
       IN \/ preferredTimeOfDay = Str("morning") /\ GeV(hour, Num(12))
          \/ preferredTimeOfDay = Str("afternoon")
               /\ (LtV(hour, Num(12)) \/ GeV(hour, Num(19)))
          \/ preferredTimeOfDay = Str("evening") /\ LtV(hour, Num(17))

\* the time-of-day test shared by the fetch functions: TRUE when the session
\* is rejected
TimeOfDayRejects(preferredTimeOfDay, s) ==
    /\ Truthy(preferredTimeOfDay) /\ preferredTimeOfDay # Str("any")
    /\ LET hour == ParseInt(SplitHead(s.start_time))
       IN \/ preferredTimeOfDay = Str("morning") /\ GeV(hour, Num(12))
          \/ preferredTimeOfDay = Str("afternoon")
               /\ (LtV(hour, Num(12)) \/ GeV(hour, Num(17)))
          \/ preferredTimeOfDay = Str("evening") /\ LtV(hour, Num(17))

\* the age test with the upper bound taken as inclusive
AgeOutside_Closed(childAge, m) ==
    LtV(childAge, Num(m.minAge)) \/ GtV(childAge, Num(m.maxAge))

\* childAge < minAge || childAge >= maxAge
AgeOutside(childAge, m) ==
    LtV(childAge, Num(m.minAge)) \/ GeV(childAge, Num(m.maxAge))

\* the capacity test off by one
FullByCount_OffByOne(s) == s.enrolled_count > s.capacity

\* session.enrolled_count >= session.capacity
FullByCount(s) == s.enrolled_count >= s.capacity

\* preferredDays && preferredDays.length > 0 && !preferredDays.includes(day)
DaysReject(preferredDays, s) ==
    /\ Truthy(preferredDays) /\ Len(preferredDays.v) > 0
    /\ ~Includes(preferredDays.v, s.day_of_week)

\* part_000: the callback of sessions.filter(...)
KeepP0(s, childAge, preferredDays, preferredTimeOfDay) ==
    /\ ~FullByCount(s)
    /\ s.program.joined /\ s.program.age_range # <<>>
    /\ AgeRangeMatch(s.program.age_range).matched
    /\ ~AgeOutside(childAge, AgeRangeMatch(s.program.age_range))
    /\ ~DaysReject(preferredDays, s)
    /\ ~TimeOfDayRejects(preferredTimeOfDay, s)

\* part_000:473-474: startTime.split(':') is reached with a null start_time
\* and throws a TypeError out of sessions.filter(...)
ThrowsP0(s, childAge, preferredDays, preferredTimeOfDay) ==
    /\ ~FullByCount(s)
    /\ s.program.joined /\ s.program.age_range # <<>>
    /\ AgeRangeMatch(s.program.age_range).matched
    /\ ~AgeOutside(childAge, AgeRangeMatch(s.program.age_range))
    /\ ~DaysReject(preferredDays, s)
    /\ TimeDereferenced(preferredTimeOfDay) /\ s.start_time = Missing

FetchMatchingSessionsP0Throws(inv, failed, organizationId, childAge, preferredDays, preferredTimeOfDay) ==
    LET q == SelectSessions(inv, TRUE, FALSE, failed)
    IN ~q.error /\ \E i \in DOMAIN q.data :
                      ThrowsP0(q.data[i], childAge, preferredDays, preferredTimeOfDay)

\* part_000: fetchMatchingSessions
FetchMatchingSessionsP0(inv, failed, organizationId, childAge, preferredDays, preferredTimeOfDay) ==
    LET q == SelectSessions(inv, TRUE, FALSE, failed)
    IN IF q.error \/ Len(q.data) = 0 THEN <<>>
       ELSE MapProjection(Take(SelectSeq(q.data, LAMBDA s :
                KeepP0(s, childAge, preferredDays, preferredTimeOfDay)), 3))

\* index.ts:1227-1265: the callback of sessions.filter(...)
KeepV2(s, organizationId, childAge, preferredDays, preferredTimeOfDay) ==
    /\ ~FullByCount(s)
    /\ s.program.joined /\ s.program.age_range # <<>>
    /\ Str(s.program.organization_id) = organizationId
    /\ AgeRangeMatch(s.program.age_range).matched
    /\ ~AgeOutside(childAge, AgeRangeMatch(s.program.age_range))
    /\ ~DaysReject(preferredDays, s)
    /\ ~TimeOfDayRejects(preferredTimeOfDay, s)

\* index.ts:1256-1258: startTime.split(':') is reached with a null start_time
ThrowsV2(s, organizationId, childAge, preferredDays, preferredTimeOfDay) ==
    /\ ~FullByCount(s)
    /\ s.program.joined /\ s.program.age_range # <<>>
    /\ Str(s.program.organization_id) = organizationId
    /\ AgeRangeMatch(s.program.age_range).matched
    /\ ~AgeOutside(childAge, AgeRangeMatch(s.program.age_range))
    /\ ~DaysReject(preferredDays, s)
    /\ TimeDereferenced(preferredTimeOfDay) /\ s.start_time = Missing

FetchMatchingSessionsV2Throws(inv, failed, organizationId, childAge, preferredDays, preferredTimeOfDay) ==
    LET q == SelectSessions(inv, TRUE, FALSE, failed)
    IN ~q.error /\ \E i \in DOMAIN q.data :
                      ThrowsV2(q.data[i], organizationId, childAge, preferredDays,
                               preferredTimeOfDay)

\* fetchMatchingSessions without the test of the query's error: the rows are
\* filtered whether the query failed or not
FetchMatchingSessionsV2_ErrorIgnored(inv, failed, organizationId, childAge, preferredDays, preferredTimeOfDay) ==
    MapProjection(Take(SelectSeq(SelectSessions(inv, TRUE, FALSE, FALSE).data, LAMBDA s :
        KeepV2(s, organizationId, childAge, preferredDays, preferredTimeOfDay)), 3))

\* index.ts:1174-1289: fetchMatchingSessions
FetchMatchingSessionsV2(inv, failed, organizationId, childAge, preferredDays, preferredTimeOfDay) ==
    LET q == SelectSessions(inv, TRUE, FALSE, failed)
    IN IF q.error \/ Len(q.data) = 0 THEN <<>>
       ELSE MapProjection(Take(SelectSeq(q.data, LAMBDA s :
                KeepV2(s, organizationId, childAge, preferredDays, preferredTimeOfDay)), 3))

\* preferredProgram && !name.toLowerCase().includes(preferredProgram.toLowerCase())
ProgramRejects(preferredProgram, s) ==
    /\ Truthy(preferredProgram)
    /\ ~StrIncludes(ToLowerCase(s.program.name), ToLowerCase(preferredProgram.cs))

\* index.ts:1772-1849: the callback of sessions.filter(...)
KeepV3(s, organizationId, childAge, preferredDays, preferredTimeOfDay, preferredProgram) ==
    /\ ~FullByCount(s)
    /\ s.program.joined /\ s.program.age_range # <<>>
    /\ Str(s.program.organization_id) = organizationId
    /\ AgeRangeMatch(s.program.age_range).matched
    /\ ~AgeOutside(childAge, AgeRangeMatch(s.program.age_range))
    /\ Includes(preferredDays.v, s.day_of_week)
    /\ ~ProgramRejects(preferredProgram, s)
    /\ ~TimeOfDayRejects(preferredTimeOfDay, s)

\* index.ts:1817-1828: program.name.toLowerCase() is reached with a null name,
\* or startTime.split(':') with a null start_time
ThrowsV3(s, organizationId, childAge, preferredDays, preferredTimeOfDay, preferredProgram) ==
    /\ ~FullByCount(s)
    /\ s.program.joined /\ s.program.age_range # <<>>
    /\ Str(s.program.organization_id) = organizationId
    /\ AgeRangeMatch(s.program.age_range).matched
    /\ ~AgeOutside(childAge, AgeRangeMatch(s.program.age_range))
    /\ Includes(preferredDays.v, s.day_of_week)
    /\ \/ Truthy(preferredProgram) /\ s.program.name = Missing
       \/ /\ ~ProgramRejects(preferredProgram, s)
          /\ TimeDereferenced(preferredTimeOfDay) /\ s.start_time = Missing

FetchMatchingSessionsV3Throws(inv, failed, organizationId, childAge, preferredDays, preferredTimeOfDay, preferredProgram) ==
    LET q == SelectSessions(inv, TRUE, TRUE, failed)
    IN ~q.error /\ \E i \in DOMAIN q.data :
                      ThrowsV3(q.data[i], organizationId, childAge, preferredDays,
                               preferredTimeOfDay, preferredProgram)

\* index.ts:1710-1885: fetchMatchingSessions
FetchMatchingSessionsV3(inv, failed, organizationId, childAge, preferredDays, preferredTimeOfDay, preferredProgram) ==
    LET q == SelectSessions(inv, TRUE, TRUE, failed)
    IN IF q.error \/ Len(q.data) = 0 THEN <<>>
       ELSE MapProjection(Take(SelectSeq(q.data, LAMBDA s :
                KeepV3(s, organizationId, childAge, preferredDays,
                       preferredTimeOfDay, preferredProgram)), 3))

\* index.ts:2265-2286: the callback of sessions.filter(...)
KeepBroader(s, organizationId, childAge, preferredDays) ==
    /\ s.program.joined /\ s.program.age_range # <<>>
    /\ Str(s.program.organization_id) = organizationId
    /\ ~FullByCount(s)
    /\ AgeRangeMatch(s.program.age_range).matched
    /\ ~AgeOutside(childAge, AgeRangeMatch(s.program.age_range))
    /\ ~(/\ Truthy(preferredDays) /\ Len(preferredDays.v) > 0
         /\ Len(preferredDays.v) < 7
         /\ ~Includes(preferredDays.v, s.day_of_week))

\* index.ts:2216-2320: fetchBroaderMatches
FetchBroaderMatches(inv, failed, organizationId, childAge, preferredDays, preferredProgram) ==
    LET q == SelectSessions(inv, TRUE, TRUE, failed)
    IN IF q.error THEN <<>>
       ELSE MapProjection(Take(SelectSeq(q.data, LAMBDA s :
                KeepBroader(s, organizationId, childAge, preferredDays)), 5))

\* index.ts:2045-2172: findRequestedSession.  The first row of the program,
\* day and time asked for, whatever its availability, with the issue it has.
RequestedMatch(s, organizationId, preferredDays, preferredTimeOfDay, preferredProgram) ==
    /\ s.program.joined
    /\ Str(s.program.organization_id) = organizationId
    /\ StrIncludes(ToLowerCase(s.program.name), ToLowerCase(preferredProgram.cs))
    /\ Includes(preferredDays.v, s.day_of_week)
    /\ ~TimeOfDayRejects(preferredTimeOfDay, s)

RequestedIssue(s, childAge) ==
    IF s.status = "full" \/ FullByCount(s) THEN Str("full")
    ELSE IF /\ AgeRangeMatch(s.program.age_range).matched
            /\ AgeOutside(childAge, AgeRangeMatch(s.program.age_range))
         THEN Str("wrong_age")
         ELSE Null

NotFound == [found |-> FALSE, session |-> Null, issue |-> Null]

FindRequestedSession(inv, failed, organizationId, childAge, preferredDays, preferredTimeOfDay, preferredProgram) ==
    IF ~Truthy(preferredProgram) \/ ~Truthy(preferredDays) \/ Len(preferredDays.v) = 0
    THEN NotFound
    ELSE LET q == SelectSessions(inv, FALSE, TRUE, failed)
             hits == SelectSeq(q.data, LAMBDA s :
                        RequestedMatch(s, organizationId, preferredDays,
                                       preferredTimeOfDay, preferredProgram))
         IN IF q.error \/ Len(hits) = 0 THEN NotFound
            ELSE [found |-> TRUE, session |-> Projection(hits[1]),
                  issue |-> RequestedIssue(hits[1], childAge)]

\* index.ts:1951-1971: the loop body of fetchAlternativeSessions; a session is
\* pushed only inside `if (preferredProgram)`
KeepAlternative(s, organizationId, childAge, preferredProgram) ==
    /\ s.program.joined
    /\ Str(s.program.organization_id) = organizationId
    /\ AgeRangeMatch(s.program.age_range).matched
    /\ ~AgeOutside(childAge, AgeRangeMatch(s.program.age_range))
    /\ Truthy(preferredProgram)
    /\ StrIncludes(ToLowerCase(s.program.name), ToLowerCase(preferredProgram.cs))

\* index.ts:1907-2013: fetchAlternativeSessions.  The query chains
\* .lt('enrolled_count', supabase.rpc('capacity')): the right-hand side is a
\* request builder, not a number, so what the store does with the filter is
\* not fixed by the code: the query errors (failed), or it answers with the
\* capacity test applied (ltApplied) or ignored.
FetchAlternativeSessions(inv, failed, ltApplied, organizationId, childAge, preferredProgram, preferredDays) ==
    LET q == SelectSessions(inv, TRUE, TRUE, failed)
        rows == SelectSeq(q.data, LAMBDA s : ltApplied => ~FullByCount(s))
    IN IF q.error THEN <<>>
       ELSE MapProjection(Take(SelectSeq(rows, LAMBDA s :
                KeepAlternative(s, organizationId, childAge, preferredProgram)), 3))

\* index.ts:2322-2388: fetchSessionById: .eq('id', sessionId).maybeSingle(),
\* no organization, status or capacity test
FetchSessionById(inv, failed, sessionId) ==
    LET hits == SelectSeq(inv, LAMBDA s : Str(s.id) = sessionId /\ s.program.joined)
    IN IF failed \/ Len(hits) = 0 THEN Null ELSE Projection(hits[1])

\* index.ts:572-604: the query of checkForFullRequestedSession chains
\* .eq('status', 'full'), programs!inner and .gte('start_date', today)
SelectFullSessions(inv, failed) ==
    IF failed THEN [error |-> TRUE, data |-> <<>>]
    ELSE [error |-> FALSE,
          data |-> SelectSeq(inv, LAMBDA s :
                      /\ s.status = "full"
                      /\ s.program.joined
                      /\ s.start_date >= Today)]

\* index.ts:610-636: the loop body of checkForFullRequestedSession up to the
\* point where the session is taken
FullRequestedMatch(s, organizationId, childAge, preferredDays, preferredTimeOfDay, preferredProgram) ==
    /\ s.program.joined
    /\ Str(s.program.organization_id) = organizationId
    /\ StrIncludes(ToLowerCase(s.program.name), ToLowerCase(preferredProgram.cs))
    /\ AgeRangeMatch(s.program.age_range).matched
    /\ ~AgeOutside(childAge, AgeRangeMatch(s.program.age_range))
    /\ Includes(preferredDays.v, s.day_of_week)
    /\ ~TimeOfDayRejects(preferredTimeOfDay, s)

\* index.ts:642-665: the mapped session; spotsRemaining is the constant 0
FullProjection(s) ==
    [sessionId |-> s.id, capacity |-> s.capacity, enrolledCount |-> s.enrolled_count,
     spotsRemaining |-> 0]

NoFullMatch == [isFullMatch |-> FALSE, session |-> Null]

\* index.ts:557-671: checkForFullRequestedSession
CheckForFullRequestedSession(inv, failed, organizationId, childAge, preferredDays, preferredTimeOfDay, preferredProgram) ==
    IF ~Truthy(preferredDays) \/ Len(preferredDays.v) = 0 \/ ~Truthy(preferredProgram)
    THEN NoFullMatch
    ELSE LET q == SelectFullSessions(inv, failed)
             hits == SelectSeq(q.data, LAMBDA s :
                        FullRequestedMatch(s, organizationId, childAge, preferredDays,
                                           preferredTimeOfDay, preferredProgram))
         IN IF q.error \/ Len(hits) = 0 THEN NoFullMatch
            ELSE [isFullMatch |-> TRUE, session |-> FullProjection(hits[1])]

-----------------------------------------------------------------------------
(* Regular-expression extraction (part_001, part_002, part_003)            *)

IsLetter(c) == IsUpper(c) \/ IsLower(c)

\* cs has sub at position i
StartsAt(cs, i, sub) ==
    /\ i >= 1 /\ i + Len(sub) - 1 <= Len(cs)
    /\ \A j \in 1..Len(sub) : cs[i + j - 1] = sub[j]

\* \s* from position i: the first index >= i that holds no blank
RECURSIVE SkipSpaces(_, _)
SkipSpaces(cs, i) ==
    IF i > Len(cs) \/ cs[i] # " " THEN i ELSE SkipSpaces(cs, i + 1)

\* [a-z]* under /i from position i: the first index >= i that holds no letter
RECURSIVE LettersEnd(_, _)
LettersEnd(cs, i) ==
    IF i > Len(cs) \/ ~IsLetter(cs[i]) THEN i ELSE LettersEnd(cs, i + 1)

\* the alternatives of (?:name is|called|this is|he'?s|she'?s), in order
IntroPhrases ==
    <<<<"n", "a", "m", "e", " ", "i", "s">>, <<"c", "a", "l", "l", "e", "d">>, <<"t", "h", "i", "s", " ", "i", "s">>, <<"h", "e", "'", "s">>, <<"h", "e", "s">>, <<"s", "h", "e", "'", "s">>, <<"s", "h", "e", "s">>>>

\* \s+([A-Z][a-z]+) under /i at position e: at least one blank, then a run of
\* at least two letters
NameAfter(cs, e) ==
    LET p == SkipSpaces(cs, e)
    IN p > e /\ LettersEnd(cs, p) >= p + 2

\* the name regular expression tried at position i
NamePhraseAt(cs, i) ==
    \E a \in DOMAIN IntroPhrases :
        /\ StartsAt(ToLowerCase(cs), i, IntroPhrases[a])
        /\ NameAfter(cs, i + Len(IntroPhrases[a]))

NoMatch == [matched |-> FALSE, capture |-> <<>>]

\* message.match(/(?:name is|called|this is|he'?s|she'?s)\s+([A-Z][a-z]+)/i)
NameWithPhraseMatch(cs) ==
    IF \E i \in DOMAIN cs : NamePhraseAt(cs, i)
    THEN LET i == CHOOSE p \in DOMAIN cs :
                     NamePhraseAt(cs, p) /\ \A q \in 1..(p - 1) : ~NamePhraseAt(cs, q)
             a == CHOOSE x \in DOMAIN IntroPhrases :
                     /\ StartsAt(ToLowerCase(cs), i, IntroPhrases[x])
                     /\ NameAfter(cs, i + Len(IntroPhrases[x]))
                     /\ \A y \in 1..(x - 1) :
                          ~(/\ StartsAt(ToLowerCase(cs), i, IntroPhrases[y])
                            /\ NameAfter(cs, i + Len(IntroPhrases[y])))
             p == SkipSpaces(cs, i + Len(IntroPhrases[a]))
         IN [matched |-> TRUE, capture |-> SubSeq(cs, p, LettersEnd(cs, p) - 1)]
    ELSE NoMatch

\* message.match(/^([A-Z][a-z]+)$/)
CapitalizedNameMatch(cs) ==
    IF /\ Len(cs) >= 2 /\ IsUpper(cs[1])
       /\ \A i \in 2..Len(cs) : IsLower(cs[i])
    THEN [matched |-> TRUE, capture |-> cs]
    ELSE NoMatch

\* message.match(/^([A-Z][a-z]{1,15})$/)
JustNameMatch(cs) ==
    IF CapitalizedNameMatch(cs).matched /\ Len(cs) <= 16
    THEN [matched |-> TRUE, capture |-> cs]
    ELSE NoMatch

\* (?:years?\s*old|yo|yrs?) under /i at position p of the lower-cased message
AgeUnitAt(lc, p) ==
    \/ /\ StartsAt(lc, p, <<"y", "e", "a", "r">>)
       /\ LET q == IF StartsAt(lc, p + 4, <<"s">>) THEN p + 5 ELSE p + 4
          IN StartsAt(lc, SkipSpaces(lc, q), <<"o", "l", "d">>)
    \/ StartsAt(lc, p, <<"y", "o">>)
    \/ StartsAt(lc, p, <<"y", "r">>)

\* the age regular expression tried at position i
AgeWordsAt(cs, i) ==
    /\ cs[i] \in Digits
    /\ AgeUnitAt(ToLowerCase(cs), SkipSpaces(cs, DigitsEnd(cs, i)))

\* message.match(/(\d+)\s*(?:years?\s*old|yo|yrs?)/i)
AgeMatchWithWords(cs) ==
    IF \E i \in DOMAIN cs : AgeWordsAt(cs, i)
    THEN LET i == CHOOSE p \in DOMAIN cs :
                     AgeWordsAt(cs, p) /\ \A q \in 1..(p - 1) : ~AgeWordsAt(cs, q)
         IN [matched |-> TRUE, capture |-> SubSeq(cs, i, DigitsEnd(cs, i) - 1)]
    ELSE NoMatch

\* message.match(/^\s*(\d+)\s*$/)
BareNumberMatch(cs) ==
    LET p == SkipSpaces(cs, 1)
        e == DigitsEnd(cs, p)
    IN IF e > p /\ SkipSpaces(cs, e) = Len(cs) + 1
       THEN [matched |-> TRUE, capture |-> SubSeq(cs, p, e - 1)]
       ELSE NoMatch

\* the dayPatterns table, in source order
DayPatterns ==
    <<[pattern |-> <<"m", "o", "n", "d", "a", "y">>, value |-> <<1>>],
      [pattern |-> <<"t", "u", "e", "s", "d", "a", "y">>, value |-> <<2>>],
      [pattern |-> <<"w", "e", "d", "n", "e", "s", "d", "a", "y">>, value |-> <<3>>],
      [pattern |-> <<"t", "h", "u", "r", "s", "d", "a", "y">>, value |-> <<4>>],
      [pattern |-> <<"f", "r", "i", "d", "a", "y">>, value |-> <<5>>],
      [pattern |-> <<"s", "a", "t", "u", "r", "d", "a", "y">>, value |-> <<6>>],
      [pattern |-> <<"s", "u", "n", "d", "a", "y">>, value |-> <<0>>],
      [pattern |-> <<"w", "e", "e", "k", "d", "a", "y">>, value |-> <<1, 2, 3, 4, 5>>],
      [pattern |-> <<"w", "e", "e", "k", "e", "n", "d">>, value |-> <<0, 6>>]>>

\* the timePatterns table, in source order
TimePatterns ==
    <<[pattern |-> <<"m", "o", "r", "n", "i", "n", "g">>, value |-> "morning"],
      [pattern |-> <<"a", "f", "t", "e", "r", "n", "o", "o", "n">>, value |-> "afternoon"],
      [pattern |-> <<"e", "v", "e", "n", "i", "n", "g">>, value |-> "evening"]>>

\* for (const {pattern, value} of table) if (pattern.test(message)) {...; break}
FirstPattern(table, cs) ==
    LET hit(i) == StrIncludes(ToLowerCase(cs), table[i].pattern)
    IN IF \E i \in DOMAIN table : hit(i)
       THEN CHOOSE i \in DOMAIN table : hit(i) /\ \A j \in 1..(i - 1) : ~hit(j)
       ELSE 0

DigitChar(d) == CHOOSE c \in Digits : DigitVal(c) = d

\* `${n}` for a non-negative integer
RECURSIVE IntToChars(_)
IntToChars(n) ==
    IF n < 10 THEN <<DigitChar(n)>>
    ELSE Append(IntToChars(n \div 10), DigitChar(n % 10))

\* message.match(/(\d{1,2})(?::(\d{2}))??\s*([ap]m)?/i).  The match starts at
\* the first digit of the message; the lazy minutes group is tried empty first
\* and everything after it can match empty, so the minutes are never captured
\* and am/pm is captured only right after the digits and blanks.
SpecificTimeMatch(cs) ==
    IF \E i \in DOMAIN cs : cs[i] \in Digits
    THEN LET i == CHOOSE p \in DOMAIN cs :
                     cs[p] \in Digits /\ \A q \in 1..(p - 1) : cs[q] \notin Digits
             e == IF DigitsEnd(cs, i) > i + 2 THEN i + 2 ELSE DigitsEnd(cs, i)
             p == SkipSpaces(cs, e)
             lc == ToLowerCase(cs)
         IN [matched |-> TRUE,
             hour |-> DigitsValue(cs, i, e, 0),
             ampm |-> IF StartsAt(lc, p, <<"a", "m">>) THEN "am"
                      ELSE IF StartsAt(lc, p, <<"p", "m">>) THEN "pm" ELSE ""]
    ELSE [matched |-> FALSE, hour |-> 0, ampm |-> ""]

\* part_003:305-327: the 24-hour conversion of the matched hour
Hour24(m) ==
    IF m.ampm = "pm" /\ m.hour < 12 THEN m.hour + 12
    ELSE IF m.ampm = "am" /\ m.hour = 12 THEN 0
    ELSE m.hour

TimeOfDayOfHour(hour) ==
    IF hour < 12 THEN "morning" ELSE IF hour < 17 THEN "afternoon" ELSE "evening"

\* one property of the extracted object, set only when the branch ran
Field(k, present, v) == IF present THEN (k :> v) ELSE EmptyObj

DaysField(cs) ==
    LET d == FirstPattern(DayPatterns, cs)
    IN Field("preferredDays", d # 0, Arr(DayPatterns[IF d = 0 THEN 1 ELSE d].value))

TimeOfDayField(cs) ==
    LET p == FirstPattern(TimePatterns, cs)
    IN Field("preferredTimeOfDay", p # 0, Str(TimePatterns[IF p = 0 THEN 1 ELSE p].value))

\* part_001:184-230: extractDataFromMessage(message)
ExtractDataFromMessageP1(message) ==
    LET name == NameWithPhraseMatch(message)
        age == AgeMatchWithWords(message)
    IN Field("childName", name.matched, Text(name.capture))
       @@ Field("childAge", age.matched, ParseInt(age.capture))
       @@ DaysField(message)
       @@ TimeOfDayField(message)

\* part_002:218-270: extractDataFromMessage(message, context)
ExtractDataFromMessageP2(message, context) ==
    LET name == NameWithPhraseMatch(message)
        age == AgeMatchWithWords(message)
        bare == BareNumberMatch(message)
        bareAge == bare.matched /\ Get(context, "currentState") = Str("collecting_child_info")
    IN Field("childName", name.matched, Text(name.capture))
       @@ Field("childAge", age.matched \/ bareAge,
                ParseInt(IF age.matched THEN age.capture ELSE bare.capture))
       @@ DaysField(message)
       @@ TimeOfDayField(message)

\* part_003:258-347: extractDataFromMessage(message, context)
ExtractDataFromMessageP3(message, context) ==
    LET phrase == NameWithPhraseMatch(message)
        capitalized == CapitalizedNameMatch(message)
        just == JustNameMatch(message)
        byJust == Get(context, "currentState") = Str("greeting") /\ just.matched
        byCap == ~Truthy(Get(context, "childName")) /\ capitalized.matched
        age == AgeMatchWithWords(message)
        bare == BareNumberMatch(message)
        bareAge == bare.matched /\ Get(context, "currentState") = Str("collecting_child_info")
        time == SpecificTimeMatch(message)
    IN Field("childName", phrase.matched \/ byJust \/ byCap,
             Text(IF phrase.matched THEN phrase.capture
                  ELSE IF byJust THEN just.capture ELSE capitalized.capture))
       @@ Field("childAge", age.matched \/ bareAge,
                ParseInt(IF age.matched THEN age.capture ELSE bare.capture))
       @@ DaysField(message)
       @@ Field("preferredTime", time.matched,
                Text(IntToChars(Hour24(time)) \o <<":", "0", "0">>))
       @@ (IF time.matched
           THEN "preferredTimeOfDay" :> Str(TimeOfDayOfHour(Hour24(time)))
           ELSE TimeOfDayField(message))

\* part_001:232-261 and part_002:272-301: determineNextState(currentState,
\* extractedData): only what this turn extracted is looked at
DetermineNextStateP1(currentState, extractedData) ==
    CASE currentState \in {Str("idle"), Str("greeting")} -> Str("collecting_child_info")
      [] currentState = Str("collecting_child_info") ->
            IF Truthy(Get(extractedData, "childName")) /\ Truthy(Get(extractedData, "childAge"))
            THEN Str("collecting_preferences")
            ELSE IF Truthy(Get(extractedData, "childName"))
                 THEN Str("collecting_child_info")
                 ELSE currentState
      [] currentState = Str("collecting_preferences") ->
            IF \/ Truthy(Get(extractedData, "preferredDays"))
               \/ Truthy(Get(extractedData, "preferredTimeOfDay"))
            THEN Str("showing_recommendations")
            ELSE currentState
      [] currentState = Str("showing_recommendations") -> Str("confirming_selection")
      [] currentState = Str("confirming_selection") -> Str("collecting_payment")
      [] OTHER -> currentState

\* part_003:349-384: determineNextState(currentState, extractedData, fullContext)
DetermineNextStateP3(currentState, extractedData, fullContext) ==
    LET has(k) == Truthy(Get(extractedData, k)) \/ Truthy(Get(fullContext, k))
    IN CASE currentState \in {Str("idle"), Str("greeting")} -> Str("collecting_child_info")
         [] currentState = Str("collecting_child_info") ->
               IF has("childName") /\ has("childAge")
               THEN Str("collecting_preferences")
               ELSE Str("collecting_child_info")
         [] currentState = Str("collecting_preferences") ->
               IF has("preferredDays") /\ (has("preferredTimeOfDay") \/ has("preferredTime"))
               THEN Str("showing_recommendations")
               ELSE Str("collecting_preferences")
         [] currentState = Str("showing_recommendations") -> Str("confirming_selection")
         [] currentState = Str("confirming_selection") -> Str("collecting_payment")
         [] OTHER -> currentState

-----------------------------------------------------------------------------
(* The client hook and the conversations table after construction          *)

\* the organizationId option the ChatInterface passes to useConversation
OrgOfClient == "org1"

NoReq == [kind |-> "none"]
NoResp == [kind |-> "none"]
NoTurn == [outcome |-> "none"]
NoUi == [error |-> "", fallback |-> FALSE]

\* useState initial values of useConversation
HookInit ==
    /\ clientConvId = Null
    /\ clientState = Str("greeting")
    /\ clientCtx = [conversationId |-> Str(""), organizationId |-> Str(OrgOfClient),
                    currentState |-> Str("greeting")]
    /\ isLoading = FALSE

ConvInit ==
    /\ HookInit
    /\ req = NoReq
    /\ resp = NoResp
    /\ db = EmptyObj
    /\ turn = NoTurn
    /\ turns = 0
    /\ ui = NoUi

-----------------------------------------------------------------------------
(* Filter runs: the fetch functions applied to every table and criteria    *)

Variants == {"P0", "P1", "P2", "P3", "V1", "V2", "V3"}

AllDays == <<0, 1, 2, 3, 4, 5, 6>>

CriteriaSet ==
    [organizationId : {Str("org1"), Str("org2")},
     childAge : {Num(3), Num(4), Num(5), Num(6)},
     preferredDays : {Undefined, Arr(<<3>>)},
     preferredTimeOfDay : {Undefined, Str("morning"), Str("afternoon"), Str("any")},
     preferredProgram : {Undefined, Text(KeySoc)}]

NoCriteria ==
    [organizationId |-> Undefined, childAge |-> Undefined, preferredDays |-> Undefined,
     preferredTimeOfDay |-> Undefined, preferredProgram |-> Undefined]

FilterInit ==
    /\ variant = "V3"
    /\ inventory \in InventoriesUpTo(MaxSessions)
    /\ fCrit \in CriteriaSet
    /\ fOut = <<>>
    /\ fRun = [fn |-> "none", failed |-> FALSE]
    /\ ConvInit

\* every run starts from the criteria and the table as they were set up: what
\* a fetch function returns does not depend on an earlier run
FreshRun == fRun.fn = "none"

RunFetchMatchingSessionsP0 ==
    /\ FreshRun
    /\ \E failed \in BOOLEAN :
         LET thrown == FetchMatchingSessionsP0Throws(inventory, failed,
                          fCrit.organizationId, fCrit.childAge, fCrit.preferredDays,
                          fCrit.preferredTimeOfDay)
         IN /\ fRun' = [fn |-> "fetchMatchingSessions.P0", failed |-> failed,
                        thrown |-> thrown]
            /\ fOut' = IF thrown THEN <<>>
                       ELSE FetchMatchingSessionsP0(inventory, failed, fCrit.organizationId,
                              fCrit.childAge, fCrit.preferredDays, fCrit.preferredTimeOfDay)
    /\ UNCHANGED <<variant, inventory, fCrit, convVars>>

RunFetchMatchingSessionsV2 ==
    /\ FreshRun
    /\ \E failed \in BOOLEAN :
         LET thrown == FetchMatchingSessionsV2Throws(inventory, failed,
                          fCrit.organizationId, fCrit.childAge, fCrit.preferredDays,
                          fCrit.preferredTimeOfDay)
         IN /\ fRun' = [fn |-> "fetchMatchingSessions.V2", failed |-> failed,
                        thrown |-> thrown]
            /\ fOut' = IF thrown THEN <<>>
                       ELSE FetchMatchingSessionsV2(inventory, failed, fCrit.organizationId,
                              fCrit.childAge, fCrit.preferredDays, fCrit.preferredTimeOfDay)
    /\ UNCHANGED <<variant, inventory, fCrit, convVars>>

\* the V3 handler calls its fetch functions only with a non-empty day array
RunFetchMatchingSessionsV3 ==
    /\ FreshRun
    /\ Truthy(fCrit.preferredDays) /\ Len(fCrit.preferredDays.v) > 0
    /\ \E failed \in BOOLEAN :
         LET thrown == FetchMatchingSessionsV3Throws(inventory, failed,
                          fCrit.organizationId, fCrit.childAge, fCrit.preferredDays,
                          fCrit.preferredTimeOfDay, fCrit.preferredProgram)
         IN /\ fRun' = [fn |-> "fetchMatchingSessions.V3", failed |-> failed,
                        thrown |-> thrown]
            /\ fOut' = IF thrown THEN <<>>
                       ELSE FetchMatchingSessionsV3(inventory, failed, fCrit.organizationId,
                              fCrit.childAge, fCrit.preferredDays, fCrit.preferredTimeOfDay,
                              fCrit.preferredProgram)
    /\ UNCHANGED <<variant, inventory, fCrit, convVars>>

RunFetchBroaderMatches ==
    /\ FreshRun
    /\ Truthy(fCrit.preferredDays) /\ Len(fCrit.preferredDays.v) > 0
    /\ \E failed \in BOOLEAN :
         /\ fRun' = [fn |-> "fetchBroaderMatches", failed |-> failed, thrown |-> FALSE]
         /\ fOut' = FetchBroaderMatches(inventory, failed, fCrit.organizationId,
                    fCrit.childAge, fCrit.preferredDays, fCrit.preferredProgram)
    /\ UNCHANGED <<variant, inventory, fCrit, convVars>>

\* every row of the table has a program name and a start time
Complete(inv) ==
    \A i \in DOMAIN inv : inv[i].program.name # Missing /\ inv[i].start_time # Missing

\* the lookups of the requested session, called like the fetch functions
\* with an age and a non-empty day array, over tables whose rows are complete;
\* fRun keeps what they answer
RunCheckForFullRequestedSession ==
    /\ FreshRun
    /\ Complete(inventory)
    /\ Truthy(fCrit.preferredDays) /\ Len(fCrit.preferredDays.v) > 0
    /\ \E failed \in BOOLEAN :
         LET r == CheckForFullRequestedSession(inventory, failed, fCrit.organizationId,
                    fCrit.childAge, fCrit.preferredDays, fCrit.preferredTimeOfDay,
                    fCrit.preferredProgram)
         IN fRun' = [fn |-> "checkForFullRequestedSession", failed |-> failed,
                     found |-> r.isFullMatch, session |-> r.session,
                     issue |-> IF r.isFullMatch THEN Str("full") ELSE Null]
    /\ fOut' = <<>>
    /\ UNCHANGED <<variant, inventory, fCrit, convVars>>

RunFindRequestedSession ==
    /\ FreshRun
    /\ Complete(inventory)
    /\ Truthy(fCrit.preferredDays) /\ Len(fCrit.preferredDays.v) > 0
    /\ \E failed \in BOOLEAN :
         LET r == FindRequestedSession(inventory, failed, fCrit.organizationId,
                    fCrit.childAge, fCrit.preferredDays, fCrit.preferredTimeOfDay,
                    fCrit.preferredProgram)
         IN fRun' = [fn |-> "findRequestedSession", failed |-> failed,
                     found |-> r.found, session |-> r.session, issue |-> r.issue]
    /\ fOut' = <<>>
    /\ UNCHANGED <<variant, inventory, fCrit, convVars>>

\* the search for alternatives, called by the handlers with the program asked
\* for; the store's answer to the capacity filter is one of its three
\* outcomes.  fRun keeps what it returns.
RunFetchAlternativeSessions ==
    /\ FreshRun
    /\ Complete(inventory)
    /\ Truthy(fCrit.preferredDays) /\ Len(fCrit.preferredDays.v) > 0
    /\ \E failed \in BOOLEAN : \E ltApplied \in (IF failed THEN {FALSE} ELSE BOOLEAN) :
         fRun' = [fn |-> "fetchAlternativeSessions", failed |-> failed,
                  ltApplied |-> ltApplied,
                  alternatives |-> FetchAlternativeSessions(inventory, failed, ltApplied,
                                      fCrit.organizationId, fCrit.childAge,
                                      fCrit.preferredProgram, fCrit.preferredDays)]
    /\ fOut' = <<>>
    /\ UNCHANGED <<variant, inventory, fCrit, convVars>>

FilterNext ==
    \/ RunFetchMatchingSessionsP0
    \/ RunFetchMatchingSessionsV2
    \/ RunFetchMatchingSessionsV3
    \/ RunFetchBroaderMatches
    \/ RunCheckForFullRequestedSession
    \/ RunFindRequestedSession
    \/ RunFetchAlternativeSessions

SpecFilter == FilterInit /\ [][FilterNext]_vars

-----------------------------------------------------------------------------
(* The edge function: what the handlers share                              *)

\* the sessions table the conversations run against; its rows are complete
SpecInventory ==
    << Session("s3", Program("org1", NameSoc, Range4to6), "active", 10, 10, 3, Time10, 120),
       Session("s2", Program("org2", NameSoc, Range4to6), "active", 0, 10, 3, Time10, 120),
       Session("s1", Program("org1", NameSoc, Range4to6), "active", 3, 10, 3, Time10, 120),
       Session("s4", Program("org1", NameSoc, Range4to6), "full", 10, 10, 3, Time14, 120) >>

\* what the collaborator may put in extractedData under the response schema of
\* index.ts:890-919 (five nullable properties)
SchemaExtractions ==
    { EmptyObj,
      "childName" :> Str("Emma"),
      ("childName" :> Null) @@ ("childAge" :> Num(5)),
      ("childName" :> Str("Emma")) @@ ("childAge" :> Num(5)),
      "childAge" :> Num(0),
      "childAge" :> Num(20),
      ("preferredDays" :> Arr(<<3>>)) @@ ("preferredTimeOfDay" :> Str("morning")) }

\* the V1 and V3 calls (index.ts:270-286, 1620-1634) ask for JSON without a
\* schema: any key may come back
FreeExtractions ==
    SchemaExtractions
    \cup { ("preferredDays" :> Arr(<<3>>)) @@ ("preferredProgram" :> Text(KeySoc)),
           ("childAge" :> Num(9)) @@ ("preferredDays" :> Arr(<<0, 1, 2, 3, 4, 5, 6>>))
               @@ ("preferredTimeOfDay" :> Str("any")),
           "organizationId" :> Str("org2") }

GeminiExtractions(v) == IF v \in {"V1", "V3"} THEN FreeExtractions ELSE SchemaExtractions

\* what it may put in nextState; the V1 and V3 replies have no schema and may
\* omit it
GeminiNextStates(v) ==
    {Str("collecting_child_info"), Str("collecting_preferences"),
     Str("showing_recommendations")}
    \cup (IF v \in {"V1", "V3"} THEN {Undefined} ELSE {})

\* the messages of the errors thrown around the collaborator call: the key
\* is not configured, the HTTP status is not OK (index.ts:256-258, 288-292,
\* 861-863, 937-941)
GeminiFaults == {"GEMINI_API_KEY not configured", "Gemini API failed: 500"}

\* the message of the SyntaxError JSON.parse throws on a text that is not JSON
ParseFault == "Unexpected token in JSON"

\* a reply whose text does not parse.  index.ts:297-307 and 1646-1656 catch
\* the SyntaxError and go on with a default reply; index.ts:959 and
\* part_000:156 let it reach the catch block of the handler.
UnparseableReply(v) ==
    IF v \in {"V1", "V3"}
    THEN [ok |-> TRUE, fault |-> "unparseable", extractedData |-> EmptyObj,
          nextState |-> Str("collecting_preferences")]
    ELSE [ok |-> FALSE, fault |-> ParseFault, extractedData |-> EmptyObj,
          nextState |-> Undefined]

\* a reply of the collaborator, or its failure (ok = FALSE: the handler throws
\* an error whose message is fault)
GeminiReplies(v) ==
    [ok : {TRUE}, fault : {""}, extractedData : GeminiExtractions(v),
     nextState : GeminiNextStates(v)]
    \cup {[ok |-> FALSE, fault |-> f, extractedData |-> EmptyObj, nextState |-> Undefined] :
            f \in GeminiFaults}
    \cup {UnparseableReply(v)}

\* whether a query fails: a query that is not made has no outcome to choose
Outcome(possible) == IF possible THEN BOOLEAN ELSE {FALSE}

\* the update without its .eq('id', id) filter: every row is written
UpdateRow_NoFilter(table, id, row) == [k \in DOMAIN table |-> row]

\* supabase.from('conversations').update(row).eq('id', id)
UpdateRow(table, id, row) ==
    IF id.t = "str" /\ id.v \in DOMAIN table THEN [table EXCEPT ![id.v] = row] ELSE table

\* the body of a successful turn result; a key the handler does not set is
\* undefined
ResponseBody(message, nextState, extractedData, recommendations, progress) ==
    [message |-> message, nextState |-> nextState, extractedData |-> extractedData,
     recommendations |-> recommendations, progress |-> progress,
     requestedSession |-> Undefined, sessionIssue |-> Undefined,
     fullSession |-> Undefined, alternatives |-> Undefined]

TurnResult(status, success, response, error) ==
    [kind |-> "result", status |-> status, success |-> success,
     response |-> response, error |-> error]

\* the catch block of part_000..part_003 and index.ts:1066-1086: message is
\* error.message of the caught error
AiErrorResult(message) ==
    TurnResult(500, FALSE, Undefined,
               [t |-> "err", code |-> "AI_ERROR", message |-> message,
                fallbackToForm |-> TRUE])

\* index.ts:1161-1172: calculateProgress(state)
CalculateProgressV2(state) ==
    CASE state = Str("collecting_child_info") -> 20
      [] state = Str("collecting_preferences") -> 40
      [] state = Str("showing_recommendations") -> 60
      [] state = Str("confirming_selection") -> 80
      [] state = Str("collecting_payment") -> 90
      [] OTHER -> 0

\* part_000:381-394, part_001:276-289, part_002:316-329, part_003:399-412:
\* calculateProgress(state)
CalculateProgress(state) ==
    CASE state = Str("greeting") -> 10
      [] state = Str("collecting_child_info") -> 25
      [] state = Str("collecting_preferences") -> 50
      [] state = Str("showing_recommendations") -> 75
      [] state = Str("confirming_selection") -> 85
      [] state = Str("collecting_payment") -> 95
      [] state = Str("confirmed") -> 100
      [] OTHER -> 0

\* extractedData.childAge && (extractedData.childAge < 2 || extractedData.childAge > 18)
AgeInvalid(extractedData) ==
    /\ Truthy(Get(extractedData, "childAge"))
    /\ \/ LtV(Get(extractedData, "childAge"), Num(2))
       \/ GtV(Get(extractedData, "childAge"), Num(18))

\* the corrective reply every validating handler returns
AgePromptResult(context, progress) ==
    TurnResult(200, TRUE,
               ResponseBody("agePrompt", Get(context, "currentState"), EmptyObj, Undefined,
                            progress),
               Undefined)

\* bookkeeping of one processed turn.  fault is the message of the error the
\* collaborator call ended with ("" when it answered), failedQueries the
\* queries of the sessions table that returned an error, writes the number of
\* updates of the conversations row made for this turn, progress the progress
\* of the turn result, searches the searches of the sessions table the turn
\* ran and matched the number of sessions fetchMatchingSessions returned (-1
\* when it did not run).
TurnRecord(outcome, context, extracted, proposed, updatedContext, nextState, queried) ==
    [outcome |-> outcome, context |-> context, extracted |-> extracted,
     proposed |-> proposed, updatedContext |-> updatedContext, nextState |-> nextState,
     queried |-> queried, stateBefore |-> clientState, dbBefore |-> db,
     applied |-> FALSE, fault |-> "", failedQueries |-> {}, writes |-> 0,
     progress |-> 0, searches |-> {}, matched |-> -1]

ErrorTurn(context, fault) ==
    [TurnRecord("error", context, EmptyObj, Undefined, context, Undefined, FALSE)
        EXCEPT !.fault = fault]

-----------------------------------------------------------------------------
(* The edge function: one handler per generation                           *)

Pending(v) == variant = v /\ req.kind = "turn" /\ resp = NoResp

HandlerFrame == UNCHANGED <<variant, inventory, clientConvId, clientCtx, clientState,
                            isLoading, req, turns, ui, filterVars>>

\* index.ts:968-983 and part_000:165-180: a key is copied only when the
\* extracted value is truthy
MergedKeys == {"childName", "childAge", "preferredDays", "preferredTime",
               "preferredTimeOfDay"}

\* the field-by-field merge with the day array appended to the known days
\* instead of replacing them
MergeTruthy_AppendDays(context, extractedData) ==
    LET set == {k \in MergedKeys : Truthy(Get(extractedData, k))}
    IN [k \in (DOMAIN context) \cup set |->
            IF k \notin set THEN context[k]
            ELSE IF k = "preferredDays" /\ Truthy(Get(context, k))
                 THEN Arr(context[k].v \o extractedData[k].v)
                 ELSE extractedData[k]]

\* index.ts:968-983: the field-by-field merge
MergeTruthy(context, extractedData) ==
    LET set == {k \in MergedKeys : Truthy(Get(extractedData, k))}
    IN [k \in (DOMAIN context) \cup set |->
            IF k \in set THEN extractedData[k] ELSE context[k]]

\* index.ts:1007-1010 and part_000:204-207: the recommendation gate
StructuredGate(nextState, updatedContext) ==
    /\ nextState = Str("showing_recommendations")
    /\ Truthy(Get(updatedContext, "childAge"))
    /\ \/ Truthy(Get(updatedContext, "preferredDays"))
       \/ Truthy(Get(updatedContext, "preferredTimeOfDay"))

\* index.ts:859-1087 and part_000:49-266 after the collaborator's reply:
\* recommendations is what this generation's fetchMatchingSessions returns,
\* promptProgress and progress what its calculateProgress returns for the
\* current and for the next state
StructuredTurn(reply, failed, recommendations, promptProgress, progress) ==
    LET context == req.context
        e == reply.extractedData
        updatedContext == MergeTruthy(context, e)
        gate == StructuredGate(reply.nextState, updatedContext)
    IN IF ~reply.ok
       THEN [resp |-> AiErrorResult(reply.fault), db |-> db,
             turn |-> ErrorTurn(context, reply.fault)]
       ELSE IF AgeInvalid(e)
       THEN [resp |-> AgePromptResult(context, promptProgress),
             db |-> db,
             turn |-> [TurnRecord("agePrompt", context, e, reply.nextState, updatedContext,
                                  Get(context, "currentState"), FALSE)
                         EXCEPT !.progress = promptProgress]]
       ELSE [resp |-> TurnResult(200, TRUE,
                        ResponseBody("ai", reply.nextState, e,
                                     IF gate THEN Arr(recommendations) ELSE Null,
                                     progress),
                        Undefined),
             db |-> UpdateRow(db, req.conversationId,
                              [state |-> reply.nextState, context |-> updatedContext]),
             turn |-> [TurnRecord("ok", context, e, reply.nextState, updatedContext,
                                  reply.nextState, gate)
                         EXCEPT !.progress = progress, !.writes = 1,
                                !.failedQueries = IF gate /\ failed
                                                   THEN {"matchingFailed"} ELSE {},
                                !.searches = IF gate THEN {"matching"} ELSE {},
                                !.matched = IF gate THEN Len(recommendations) ELSE -1]]

\* part_000:41-266
HandleP0 ==
    /\ Pending("P0")
    /\ \E reply \in GeminiReplies("P0") :
         \E failed \in Outcome(StructuredGate(reply.nextState,
                                  MergeTruthy(req.context, reply.extractedData))) :
         LET u == MergeTruthy(req.context, reply.extractedData)
             r == StructuredTurn(reply, failed,
                    FetchMatchingSessionsP0(inventory, failed,
                        Get(req.context, "organizationId"), Get(u, "childAge"),
                        Get(u, "preferredDays"), Get(u, "preferredTimeOfDay")),
                    CalculateProgress(Get(req.context, "currentState")),
                    CalculateProgress(reply.nextState))
         IN resp' = r.resp /\ db' = r.db /\ turn' = r.turn
    /\ HandlerFrame

\* index.ts:851-1087
HandleV2 ==
    /\ Pending("V2")
    /\ \E reply \in GeminiReplies("V2") :
         \E failed \in Outcome(StructuredGate(reply.nextState,
                                  MergeTruthy(req.context, reply.extractedData))) :
         LET u == MergeTruthy(req.context, reply.extractedData)
             r == StructuredTurn(reply, failed,
                    FetchMatchingSessionsV2(inventory, failed,
                        Get(req.context, "organizationId"), Get(u, "childAge"),
                        Get(u, "preferredDays"), Get(u, "preferredTimeOfDay")),
                    CalculateProgressV2(Get(req.context, "currentState")),
                    CalculateProgressV2(reply.nextState))
         IN resp' = r.resp /\ db' = r.db /\ turn' = r.turn
    /\ HandlerFrame

\* the regex generations after extraction: fault is the message of the error
\* thrown around the collaborator call ("" when it answered), validate is FALSE
\* for part_001, which has no age check; nextState is what determineNextState
\* returned
RegexTurn(fault, validate, extractedData, nextState) ==
    LET context == req.context
        updatedContext == Spread(context, extractedData)
    IN IF fault # ""
       THEN [resp |-> AiErrorResult(fault), db |-> db, turn |-> ErrorTurn(context, fault)]
       ELSE IF validate /\ AgeInvalid(extractedData)
       THEN [resp |-> AgePromptResult(context,
                                      CalculateProgress(Get(context, "currentState"))),
             db |-> db,
             turn |-> [TurnRecord("agePrompt", context, extractedData, Undefined,
                                  updatedContext, Get(context, "currentState"), FALSE)
                         EXCEPT !.progress = CalculateProgress(Get(context, "currentState"))]]
       ELSE [resp |-> TurnResult(200, TRUE,
                        ResponseBody("ai", nextState, extractedData, Undefined,
                                     CalculateProgress(nextState)),
                        Undefined),
             db |-> UpdateRow(db, req.conversationId,
                              [state |-> nextState, context |-> updatedContext]),
             turn |-> [TurnRecord("ok", context, extractedData, Undefined, updatedContext,
                                  nextState, FALSE)
                         EXCEPT !.progress = CalculateProgress(nextState), !.writes = 1]]

\* part_001:33-143
HandleP1 ==
    /\ Pending("P1")
    /\ \E fault \in {""} \cup GeminiFaults :
         LET e == ExtractDataFromMessageP1(req.message)
             r == RegexTurn(fault, FALSE, e,
                            DetermineNextStateP1(Get(req.context, "currentState"), e))
         IN resp' = r.resp /\ db' = r.db /\ turn' = r.turn
    /\ HandlerFrame

\* part_002:33-189
HandleP2 ==
    /\ Pending("P2")
    /\ \E fault \in {""} \cup GeminiFaults :
         LET e == ExtractDataFromMessageP2(req.message, req.context)
             r == RegexTurn(fault, TRUE, e,
                            DetermineNextStateP1(Get(req.context, "currentState"), e))
         IN resp' = r.resp /\ db' = r.db /\ turn' = r.turn
    /\ HandlerFrame

\* part_003:33-198
HandleP3 ==
    /\ Pending("P3")
    /\ \E fault \in {""} \cup GeminiFaults :
         LET e == ExtractDataFromMessageP3(req.message, req.context)
             r == RegexTurn(fault, TRUE, e,
                            DetermineNextStateP3(Get(req.context, "currentState"), e,
                                                 Spread(req.context, e)))
         IN resp' = r.resp /\ db' = r.db /\ turn' = r.turn
    /\ HandlerFrame

\* of the queries made in a turn, those that returned an error
FailedIn(o, made) == {q \in made : o[q]}

\* index.ts:1702-1708: calculateProgress(context)
CalculateProgressV3(context) ==
    (IF Truthy(Get(context, "childName")) THEN 33 ELSE 0)
    + (IF Truthy(Get(context, "childAge")) THEN 33 ELSE 0)
    + (IF /\ Truthy(Get(context, "preferredDays"))
          /\ Len(Get(context, "preferredDays").v) > 0 THEN 34 ELSE 0)

\* index.ts:1462-1482 and, with the same text, index.ts:126-146: the catch
\* block; error is the string error.message
ErrorResultV3(message) ==
    TurnResult(200, FALSE,
               ResponseBody("trouble", Str("error"), EmptyObj, Null, 0),
               Str(message))

\* the message of the error callGeminiWithPrompt throws (index.ts:336-338,
\* 1685-1687)
PromptFault == "Gemini API failed: 500"

\* index.ts:1371: updatedContext.childAge && updatedContext.preferredDays
\*                && updatedContext.preferredDays.length > 0
EnoughInfoV3(updatedContext) ==
    /\ Truthy(Get(updatedContext, "childAge"))
    /\ Truthy(Get(updatedContext, "preferredDays"))
    /\ Len(Get(updatedContext, "preferredDays").v) > 0

\* outcomes of the store and of the second collaborator call within one turn:
\* the lookup by id is made when a session is selected, the requested-session
\* lookup when a program is asked for, the alternatives lookup and the second
\* collaborator call when that lookup succeeds and reports an issue, the
\* matching and broader lookups otherwise
StoreOutcomes(context, updatedContext) ==
    LET selecting == Truthy(Get(context, "selectedSessionId"))
        enough == EnoughInfoV3(updatedContext)
        asking == enough /\ Truthy(Get(updatedContext, "preferredProgram"))
        issue == asking /\ Truthy(FindRequestedSession(inventory, FALSE,
                                      Get(context, "organizationId"),
                                      Get(updatedContext, "childAge"),
                                      Get(updatedContext, "preferredDays"),
                                      Get(updatedContext, "preferredTimeOfDay"),
                                      Get(updatedContext, "preferredProgram")).issue)
    IN [byIdFailed : Outcome(selecting), requestedFailed : {FALSE},
        alternativesFailed : Outcome(issue), ltApplied : Outcome(issue),
        issueReplyFailed : Outcome(issue), matchingFailed : Outcome(enough /\ ~issue),
        broaderFailed : Outcome(enough /\ ~issue)]
       \cup
       [byIdFailed : Outcome(selecting), requestedFailed : IF asking THEN {TRUE} ELSE {FALSE},
        alternativesFailed : {FALSE}, ltApplied : {FALSE}, issueReplyFailed : {FALSE},
        matchingFailed : Outcome(enough), broaderFailed : Outcome(enough)]

\* index.ts:1302-1483 after the collaborator's reply; nothing is written to the
\* conversations table
TurnV3(reply, o) ==
    LET context == req.context
        extractedData == reply.extractedData
        updatedContext == Spread(context, extractedData)
        org == Get(context, "organizationId")
        age == Get(updatedContext, "childAge")
        days == Get(updatedContext, "preferredDays")
        tod == Get(updatedContext, "preferredTimeOfDay")
        program == Get(updatedContext, "preferredProgram")
        selected == IF Truthy(Get(context, "selectedSessionId"))
                    THEN FetchSessionById(inventory, o.byIdFailed,
                                          Get(context, "selectedSessionId"))
                    ELSE Null
        requestedCheck == FindRequestedSession(inventory, o.requestedFailed, org, age, days,
                                               tod, program)
        alternatives == FetchAlternativeSessions(inventory, o.alternativesFailed, o.ltApplied,
                                                 org, age, program, days)
        matching == FetchMatchingSessionsV3(inventory, o.matchingFailed, org, age, days, tod,
                                            program)
        recommendations == IF Len(matching) = 0
                           THEN FetchBroaderMatches(inventory, o.broaderFailed, org, age, days,
                                                    program)
                           ELSE matching
        nextState == IF Truthy(reply.nextState) THEN reply.nextState
                     ELSE Str("collecting_preferences")
        progress == CalculateProgressV3(updatedContext)
        record(outcome, state, queried) ==
            TurnRecord(outcome, context, extractedData, reply.nextState, updatedContext,
                       state, queried)
        book(t, made) ==
            [t EXCEPT !.fault = reply.fault, !.progress = progress,
                      !.failedQueries = FailedIn(o, made)]
    IN IF ~reply.ok
       THEN [resp |-> ErrorResultV3(reply.fault), turn |-> ErrorTurn(context, reply.fault)]
       ELSE IF selected # Null
       THEN [resp |-> TurnResult(200, TRUE,
                        ResponseBody("selection", Str("confirming_selection"),
                                     updatedContext, Arr(<<selected>>), progress),
                        Undefined),
             turn |-> book(record("selection", Str("confirming_selection"), TRUE),
                           {"byIdFailed"})]
       ELSE IF ~EnoughInfoV3(updatedContext)
       THEN [resp |-> TurnResult(200, TRUE,
                        ResponseBody("ai", nextState, updatedContext, Null, progress),
                        Undefined),
             turn |-> book(record("ok", nextState, Truthy(Get(context, "selectedSessionId"))),
                           {"byIdFailed"})]
       ELSE IF requestedCheck.found /\ Truthy(requestedCheck.issue)
       THEN IF o.issueReplyFailed
            THEN [resp |-> ErrorResultV3(PromptFault),
                  turn |-> [ErrorTurn(context, PromptFault)
                              EXCEPT !.queried = TRUE,
                                     !.searches = {"alternatives"},
                                     !.failedQueries =
                                         FailedIn(o, {"byIdFailed", "alternativesFailed"})]]
            ELSE [resp |-> TurnResult(200, TRUE,
                             [ResponseBody("issue", Str("showing_unavailable_session"),
                                           updatedContext, Undefined, progress)
                                EXCEPT !.requestedSession = requestedCheck.session,
                                       !.sessionIssue = requestedCheck.issue,
                                       !.alternatives = Arr(alternatives)],
                             Undefined),
                  turn |-> [book(record("unavailable", Str("showing_unavailable_session"),
                                        TRUE),
                                 {"byIdFailed", "alternativesFailed"})
                              EXCEPT !.searches = {"alternatives"}]]
       ELSE [resp |-> TurnResult(200, TRUE,
                        ResponseBody("ai", nextState, updatedContext,
                                     Arr(recommendations), progress),
                        Undefined),
             turn |-> [book(record("ok", nextState, TRUE),
                            {"byIdFailed", "requestedFailed", "matchingFailed"}
                            \cup (IF Len(matching) = 0 THEN {"broaderFailed"} ELSE {}))
                         EXCEPT !.searches = {"matching"} \cup (IF Len(matching) = 0
                                                                THEN {"broader"} ELSE {}),
                                !.matched = Len(matching)]]

\* index.ts:1302-1483
HandleV3 ==
    /\ Pending("V3")
    /\ \E reply \in GeminiReplies("V3") :
         \E o \in StoreOutcomes(req.context, Spread(req.context, reply.extractedData)) :
            LET r == TurnV3(reply, o)
            IN resp' = r.resp /\ turn' = r.turn
    /\ db' = db
    /\ HandlerFrame

\* outcomes of the store and of the second collaborator call within one turn
\* of index.ts:13-147: the full-session lookup is made when a program is asked
\* for, the alternatives lookup and the second collaborator call when it
\* reports a match, the matching lookup otherwise
StoreOutcomesV1(context, updatedContext) ==
    LET enough == EnoughInfoV3(updatedContext)
        asking == enough /\ Truthy(Get(updatedContext, "preferredProgram"))
        full == asking /\ CheckForFullRequestedSession(inventory, FALSE,
                                      Get(context, "organizationId"),
                                      Get(updatedContext, "childAge"),
                                      Get(updatedContext, "preferredDays"),
                                      Get(updatedContext, "preferredTimeOfDay"),
                                      Get(updatedContext, "preferredProgram")).isFullMatch
    IN [requestedFailed : {FALSE}, alternativesFailed : Outcome(full),
        ltApplied : Outcome(full), issueReplyFailed : Outcome(full),
        matchingFailed : Outcome(enough /\ ~full)]
       \cup
       [requestedFailed : IF asking THEN {TRUE} ELSE {FALSE}, alternativesFailed : {FALSE},
        ltApplied : {FALSE}, issueReplyFailed : {FALSE}, matchingFailed : Outcome(enough)]

\* index.ts:13-147 after the collaborator's reply; nothing is written to the
\* conversations table
TurnV1(reply, o) ==
    LET context == req.context
        extractedData == reply.extractedData
        updatedContext == Spread(context, extractedData)
        org == Get(context, "organizationId")
        age == Get(updatedContext, "childAge")
        days == Get(updatedContext, "preferredDays")
        tod == Get(updatedContext, "preferredTimeOfDay")
        program == Get(updatedContext, "preferredProgram")
        fullCheck == CheckForFullRequestedSession(inventory, o.requestedFailed, org, age,
                                                  days, tod, program)
        alternatives == FetchAlternativeSessions(inventory, o.alternativesFailed, o.ltApplied,
                                                 org, age, program, days)
        recommendations == FetchMatchingSessionsV3(inventory, o.matchingFailed, org, age, days,
                                                   tod, program)
        nextState == IF Truthy(reply.nextState) THEN reply.nextState
                     ELSE Str("collecting_preferences")
        progress == CalculateProgressV3(updatedContext)
        record(outcome, state, queried) ==
            TurnRecord(outcome, context, extractedData, reply.nextState, updatedContext,
                       state, queried)
        book(t, made) ==
            [t EXCEPT !.fault = reply.fault, !.progress = progress,
                      !.failedQueries = FailedIn(o, made)]
    IN IF ~reply.ok
       THEN [resp |-> ErrorResultV3(reply.fault), turn |-> ErrorTurn(context, reply.fault)]
       ELSE IF ~EnoughInfoV3(updatedContext)
       THEN [resp |-> TurnResult(200, TRUE,
                        ResponseBody("ai", nextState, updatedContext, Null, progress),
                        Undefined),
             turn |-> book(record("ok", nextState, FALSE), {})]
       ELSE IF fullCheck.isFullMatch
       THEN IF o.issueReplyFailed
            THEN [resp |-> ErrorResultV3(PromptFault),
                  turn |-> [ErrorTurn(context, PromptFault)
                              EXCEPT !.queried = TRUE,
                                     !.searches = {"alternatives"},
                                     !.failedQueries = FailedIn(o, {"alternativesFailed"})]]
            ELSE [resp |-> TurnResult(200, TRUE,
                             [ResponseBody("issue", Str("showing_full_session"),
                                           updatedContext, Undefined, progress)
                                EXCEPT !.fullSession = fullCheck.session,
                                       !.alternatives = Arr(alternatives)],
                             Undefined),
                  turn |-> [book(record("full", Str("showing_full_session"), TRUE),
                                 {"alternativesFailed"})
                              EXCEPT !.searches = {"alternatives"}]]
       ELSE [resp |-> TurnResult(200, TRUE,
                        ResponseBody("ai", nextState, updatedContext,
                                     Arr(recommendations), progress),
                        Undefined),
             turn |-> [book(record("ok", nextState, TRUE),
                            {"requestedFailed", "matchingFailed"})
                         EXCEPT !.searches = {"matching"},
                                !.matched = Len(recommendations)]]

\* index.ts:13-147
HandleV1 ==
    /\ Pending("V1")
    /\ \E reply \in GeminiReplies("V1") :
         \E o \in StoreOutcomesV1(req.context, Spread(req.context, reply.extractedData)) :
            LET r == TurnV1(reply, o)
            IN resp' = r.resp /\ turn' = r.turn
    /\ db' = db
    /\ HandlerFrame

-----------------------------------------------------------------------------
(* The client: useConversation and the ChatInterface around it              *)

\* what the user may type
Messages ==
    { <<"h", "i">>,
      <<"E", "m", "m", "a">>,
      <<"n", "a", "m", "e", " ", "i", "s", " ", "E", "m", "m", "a">>,
      <<"5">>,
      <<"5", " ", "y", "o">>,
      <<"2", "0", " ", "y", "o">>,
      <<"0", " ", "y", "o">>,
      <<"n", "a", "m", "e", " ", "i", "s", " ", "E", "m", "m", "a", " ", "5", " ", "y", "o">>,
      <<"w", "e", "d", "n", "e", "s", "d", "a", "y", " ", "m", "o", "r", "n", "i", "n", "g">>,
      <<"w", "e", "d", "n", "e", "s", "d", "a", "y">>,
      <<"4", "p", "m">>,
      <<"y", "e", "s">> }

\* the structured generations hand the text to the collaborator and never look
\* at it themselves: one text stands for all
MessagesFor(v) == IF v \in {"P1", "P2", "P3"} THEN Messages ELSE {<<"h", "i">>}

ClientFrame == UNCHANGED <<variant, inventory, filterVars>>

\* part_004:31-64: initializeConversation, run by the mount effect; the insert
\* returns the new row (inserted) or an error
InitializeConversation ==
    /\ clientConvId = Null
    /\ \E inserted \in BOOLEAN :
         IF inserted
         THEN /\ db' = ("c1" :> [state |-> Str("greeting"),
                                 context |-> [organizationId |-> Str(OrgOfClient),
                                              currentState |-> Str("greeting")]]) @@ db
              /\ clientConvId' = Str("c1")
              /\ clientCtx' = [conversationId |-> Str("c1"),
                               organizationId |-> Str(OrgOfClient),
                               currentState |-> Str("greeting")]
              /\ ui' = ui
         ELSE /\ ui' = [ui EXCEPT !.error = "insert failed"]
              /\ UNCHANGED <<db, clientConvId, clientCtx>>
    /\ UNCHANGED <<clientState, isLoading, req, resp, turn, turns>>
    /\ ClientFrame

\* part_006:66-74 handleSendMessage and part_004:66-89 sendMessage up to the
\* await: the request carries the hook's conversationId and context
SendMessage ==
    /\ ~ui.fallback
    /\ ~isLoading
    /\ Truthy(clientConvId)
    /\ req = NoReq
    /\ turns < MaxTurns
    /\ \E message \in MessagesFor(variant) :
         req' = [kind |-> "turn", message |-> message, conversationId |-> clientConvId,
                 context |-> clientCtx]
    /\ isLoading' = TRUE
    /\ ui' = [ui EXCEPT !.error = ""]
    /\ turns' = turns + 1
    /\ UNCHANGED <<clientConvId, clientCtx, clientState, resp, db, turn>>
    /\ ClientFrame

\* response.error?.message || 'AI service error'
ErrorMessageOf(error) ==
    IF error.t = "err" /\ error.message # "" THEN error.message ELSE "AI service error"

\* services/ai/kaiAgent.ts is not among the sources: sendMessageToKai posts
\* the request to the function and hands its JSON body to the hook as it is,
\* the turn result of the specification
SendMessageToKai(result) == result

\* part_004:91-139: sendMessage after the await.  context and conversationId
\* are the ones the callback closed over when the message was sent.
ReceiveResponse ==
    /\ resp.kind = "result"
    /\ LET context == req.context
           conversationId == req.conversationId
           response == SendMessageToKai(resp)
       IN IF response.success /\ response.response # Undefined
          THEN LET newState == response.response.nextState
                   newContext == Spread(SetKey(context, "currentState", newState),
                                        response.response.extractedData)
               IN /\ clientState' = newState
                  /\ clientCtx' = newContext
                  /\ db' = UpdateRow(db, conversationId,
                                     [state |-> newState, context |-> newContext])
                  /\ ui' = ui
          ELSE /\ IF response.error.t = "err" /\ response.error.fallbackToForm
                  THEN ui' = [ui EXCEPT !.fallback = TRUE]
                  ELSE ui' = [ui EXCEPT !.error = ErrorMessageOf(response.error)]
               /\ UNCHANGED <<clientState, clientCtx, db>>
    /\ isLoading' = FALSE
    /\ req' = NoReq
    /\ resp' = NoResp
    /\ turn' = [turn EXCEPT !.applied = TRUE,
                             !.writes = IF SendMessageToKai(resp).success
                                           /\ SendMessageToKai(resp).response # Undefined
                                        THEN @ + 1 ELSE @]
    /\ UNCHANGED <<clientConvId, turns>>
    /\ ClientFrame

-----------------------------------------------------------------------------
(* The conversation: a client talking to one generation of the function    *)

Init ==
    /\ variant \in Variants
    /\ inventory = SpecInventory
    /\ fCrit = NoCriteria
    /\ fOut = <<>>
    /\ fRun = [fn |-> "none", failed |-> FALSE]
    /\ ConvInit

\* index.ts:270, 872, 1619, part_000:65, part_001:55, part_002:55, part_003:65:
\* the handler awaits fetch(GEMINI_API_URL) with no signal and no timer.  When
\* the service never answers, the promise never settles: the handler stays at
\* the await and no step of it is left to take.
GeminiNeverAnswers ==
    /\ req.kind = "turn"
    /\ resp = NoResp
    /\ req' = [req EXCEPT !.kind = "awaiting"]
    /\ UNCHANGED <<variant, inventory, clientConvId, clientCtx, clientState, isLoading,
                   resp, db, turn, turns, ui, filterVars>>

Next ==
    \/ InitializeConversation
    \/ SendMessage
    \/ GeminiNeverAnswers
    \/ HandleP0
    \/ HandleP1
    \/ HandleP2
    \/ HandleP3
    \/ HandleV1
    \/ HandleV2
    \/ HandleV3
    \/ ReceiveResponse

Spec == Init /\ [][Next]_vars

\* a handler is at a point from which it can return: its request has arrived
\* and it is not held at an await
Runnable == req.kind = "turn" /\ resp = NoResp

\* The mount effect and the continuation of the hook run once they can.  A
\* handler that can return does not stay where it is for ever: this is weak
\* fairness of the handlers' steps, stated on the states in which they are
\* enabled.  Nothing obliges the user to send a message, or the service to
\* answer.
SpecLive ==
    /\ Init
    /\ [][Next]_vars
    /\ WF_vars(InitializeConversation)
    /\ WF_vars(ReceiveResponse)
    /\ []<>(~Runnable)

-----------------------------------------------------------------------------
(* Properties of the fetch functions (SpecFilter)                          *)

Lookups == {"checkForFullRequestedSession", "findRequestedSession"}

\* a fetch function has run
FilterRan == fRun.fn \notin {"none", "fetchAlternativeSessions"} \cup Lookups

\* a lookup of the requested session has run
LookupRan == fRun.fn \in Lookups

\* the rows of the table behind the returned projections
ReturnedRows ==
    { s \in { inventory[i] : i \in DOMAIN inventory } :
        \E j \in DOMAIN fOut : fOut[j].sessionId = s.id }

InventoryRows == { inventory[i] : i \in DOMAIN inventory }

\* C3: every session returned by a fetch function belongs to a program of the
\* organization the request was made for.
C3_TenantIsolation ==
    \A s \in ReturnedRows : Str(s.program.organization_id) = fCrit.organizationId

\* C8: no session that is full (enrolled_count >= capacity) or whose status is
\* not active is ever returned by a fetch function.
C8_OnlyAvailableReturned ==
    \A s \in ReturnedRows : s.status = "active" /\ s.enrolled_count < s.capacity

\* a fetch function returned something although the table held a session that
\* is full or not active
C8_Witness ==
    /\ FilterRan /\ fOut # <<>>
    /\ \E s \in InventoryRows : s.status # "active" \/ s.enrolled_count >= s.capacity

\* the bounds of the age ranges stored in the table, read off the stored text
ExpectedMin(range) == IF range = Range4to6 THEN 4 ELSE 6
ExpectedMax(range) == IF range = Range4to6 THEN 6 ELSE 12

\* rows that pass every predicate other than the age predicate, for every fetch
\* function: bookable, of the requested organization, on a requested day, and
\* the request names no time of day and no program
PassesAllButAge(s) ==
    /\ s.status = "active" /\ s.enrolled_count < s.capacity /\ s.start_date >= Today
    /\ s.program.joined /\ Str(s.program.organization_id) = fCrit.organizationId
    /\ fCrit.preferredDays # Undefined => Includes(fCrit.preferredDays.v, s.day_of_week)
    /\ fCrit.preferredTimeOfDay \in {Undefined, Str("any")}
    /\ fCrit.preferredProgram = Undefined

\* C9: the age predicate is the half-open interval: a session with range
\* [min,max) is returned only for min <= age < max, and a session that passes
\* every other predicate is returned for each such age.
C9_HalfOpenAgeRange ==
    FilterRan =>
      \A s \in InventoryRows :
        s.program.age_range \in {Range4to6, Range6to12} =>
          LET lo == ExpectedMin(s.program.age_range)
              hi == ExpectedMax(s.program.age_range)
              a == fCrit.childAge.v
          IN /\ s \in ReturnedRows => (lo <= a /\ a < hi)
             /\ (~fRun.failed /\ PassesAllButAge(s) /\ lo <= a /\ a < hi)
                  => s \in ReturnedRows

\* age 5 got a [4,6) session, and the same table asked for age 6 would not
C9_Witness ==
    /\ FilterRan /\ fCrit.childAge = Num(5)
    /\ \E s \in ReturnedRows : s.program.age_range = Range4to6

\* a session of the requesting organization that is the program, day and time
\* of day asked for
Requested(s) ==
    /\ s.start_date >= Today
    /\ s.program.joined /\ Str(s.program.organization_id) = fCrit.organizationId
    /\ StrIncludes(ToLowerCase(s.program.name), ToLowerCase(fCrit.preferredProgram.cs))
    /\ Includes(fCrit.preferredDays.v, s.day_of_week)
    /\ ~TimeOfDayRejects(fCrit.preferredTimeOfDay, s)

IsFull(s) == s.status = "full" \/ s.enrolled_count >= s.capacity

\* the request names a program and days, the table holds sessions asked for
\* and every one of them is full
RequestedIsFull ==
    /\ Truthy(fCrit.preferredProgram)
    /\ Truthy(fCrit.preferredDays) /\ Len(fCrit.preferredDays.v) > 0
    /\ \E s \in InventoryRows : Requested(s)
    /\ \A s \in InventoryRows : Requested(s) => IsFull(s)

\* C11: when the session asked for (program, day, time of day) is in the
\* table and full, by status or by count, the lookup of the requested session
\* reports it with issue 'full', whatever its age range, instead of reporting
\* that there is no such session.
C11_FullRequestedReported ==
    (LookupRan /\ ~fRun.failed /\ RequestedIsFull) =>
        /\ fRun.found
        /\ fRun.issue = Str("full")
        /\ \E s \in InventoryRows :
              Requested(s) /\ IsFull(s) /\ s.id = fRun.session.sessionId

\* a row with malformed data: no program join, an age_range that is missing
\* or does not parse, no program name, no start time
Malformed(s) ==
    \/ ~s.program.joined
    \/ s.program.age_range = <<>>
    \/ ~AgeRangeMatch(s.program.age_range).matched
    \/ s.program.name = Missing
    \/ s.start_time = Missing

\* the table without its malformed rows
WellFormedRows == SelectSeq(inventory, LAMBDA s : ~Malformed(s))

\* what the fetch function that ran returns for the same criteria when the
\* table holds the well-formed rows only
ResultOnWellFormed ==
    CASE fRun.fn = "fetchMatchingSessions.P0" ->
            FetchMatchingSessionsP0(WellFormedRows, FALSE, fCrit.organizationId,
                fCrit.childAge, fCrit.preferredDays, fCrit.preferredTimeOfDay)
      [] fRun.fn = "fetchMatchingSessions.V2" ->
            FetchMatchingSessionsV2(WellFormedRows, FALSE, fCrit.organizationId,
                fCrit.childAge, fCrit.preferredDays, fCrit.preferredTimeOfDay)
      [] fRun.fn = "fetchMatchingSessions.V3" ->
            FetchMatchingSessionsV3(WellFormedRows, FALSE, fCrit.organizationId,
                fCrit.childAge, fCrit.preferredDays, fCrit.preferredTimeOfDay,
                fCrit.preferredProgram)
      [] fRun.fn = "fetchBroaderMatches" ->
            FetchBroaderMatches(WellFormedRows, FALSE, fCrit.organizationId,
                fCrit.childAge, fCrit.preferredDays, fCrit.preferredProgram)

\* C14: a fetch function run over a table with malformed rows throws no
\* error, returns no row whose program join or age range is missing or
\* unparseable, and returns every session it returns for the well-formed rows
\* alone.
C14_MalformedRowsExcluded ==
    (FilterRan /\ ~fRun.failed) =>
        /\ ~fRun.thrown
        /\ \A s \in ReturnedRows :
              s.program.joined /\ AgeRangeMatch(s.program.age_range).matched
        /\ \A j \in DOMAIN ResultOnWellFormed :
              \E k \in DOMAIN fOut : fOut[k] = ResultOnWellFormed[j]

-----------------------------------------------------------------------------
(* Properties of the conversation (Spec)                                   *)

\* a turn the handler answered with success: true
Answered == turn.outcome \in {"ok", "agePrompt", "selection", "unavailable", "full"}

\* the client has applied the result of the last turn
Applied == Answered /\ turn.applied

FactKeys == {"childName", "childAge", "preferredDays", "preferredTime",
             "preferredTimeOfDay", "preferredProgram"}

NullOrAbsent(v) == v = Null \/ v = Undefined

\* equal, an unknown fact being unknown whether it reads null or undefined
SameFact(a, b) == a = b \/ (NullOrAbsent(a) /\ NullOrAbsent(b))

\* C1: merging an extraction into the context, on the server and on the
\* client, leaves every field whose extracted value is null or absent as it
\* was before the turn: a known fact is never erased.
C1_NoErasure ==
    /\ turn.outcome = "ok" =>
         \A k \in FactKeys :
            NullOrAbsent(Get(turn.extracted, k)) =>
               SameFact(Get(turn.updatedContext, k), Get(turn.context, k))
    /\ (Applied /\ turn.outcome = "ok") =>
         \A k \in FactKeys :
            NullOrAbsent(Get(turn.extracted, k)) =>
               SameFact(Get(clientCtx, k), Get(turn.context, k))

\* age known and at least one schedule axis known
EnoughToMatch(context) ==
    /\ Truthy(Get(context, "childAge"))
    /\ \/ /\ Truthy(Get(context, "preferredDays"))
          /\ Len(Get(context, "preferredDays").v) > 0
       \/ Truthy(Get(context, "preferredTimeOfDay"))
       \/ Truthy(Get(context, "preferredTime"))

\* C2: a turn result or a persisted conversation in state
\* showing_recommendations has a merged context with the child's age and at
\* least one schedule axis.
C2_RecommendationsNeedInfo ==
    /\ (Answered /\ turn.nextState = Str("showing_recommendations")) =>
         EnoughToMatch(turn.updatedContext)
    /\ \A id \in DOMAIN db :
         db[id].state = Str("showing_recommendations") => EnoughToMatch(db[id].context)

\* the turn's extraction holds an age outside [2,18]
ExtractedAgeOutOfRange ==
    /\ Answered
    /\ Get(turn.extracted, "childAge").t = "num"
    /\ \/ Get(turn.extracted, "childAge").v < 2
       \/ Get(turn.extracted, "childAge").v > 18

\* C4: a turn whose extraction holds an age outside [2,18], 0 and 1 included,
\* returns the corrective prompt and the state the context had before the turn.
C4_InvalidAgePrompt ==
    ExtractedAgeOutOfRange =>
        /\ turn.outcome = "agePrompt"
        /\ turn.nextState = Get(turn.context, "currentState")

FactsOf(context) == [k \in FactKeys |-> Get(context, k)]

\* C5: on a turn whose extracted age is outside [2,18] neither the server nor
\* the client stores anything of the extraction, the persisted state stays,
\* and the sessions table is not queried.
C5_InvalidAgeNoEffect ==
    ExtractedAgeOutOfRange =>
        /\ ~turn.queried
        /\ \A id \in DOMAIN db :
              /\ db[id].state = turn.dbBefore[id].state
              /\ FactsOf(db[id].context) = FactsOf(turn.dbBefore[id].context)
        /\ turn.applied => FactsOf(clientCtx) = FactsOf(turn.context)

\* C6: a turn processed in collecting_child_info moves to
\* collecting_preferences exactly when the merged context holds both the name
\* and the age, in whichever turns they arrived.
C6_ChildInfoComplete ==
    (/\ turn.outcome = "ok"
     /\ Get(turn.context, "currentState") = Str("collecting_child_info")) =>
        (turn.nextState = Str("collecting_preferences")
           <=> (/\ Truthy(Get(turn.updatedContext, "childName"))
                /\ Truthy(Get(turn.updatedContext, "childAge"))))

StateOrder ==
    <<"greeting", "collecting_child_info", "collecting_preferences",
      "showing_recommendations", "confirming_selection", "collecting_payment">>

Ordered(state) == state.t = "str" /\ \E i \in DOMAIN StateOrder : StateOrder[i] = state.v

Rank(state) == CHOOSE i \in DOMAIN StateOrder : StateOrder[i] = state.v

\* C7: the state a successful turn returns is never earlier in the order of
\* states than the state the conversation was in when the turn started.
C7_ForwardOnly ==
    (Answered /\ Ordered(turn.nextState) /\ Ordered(turn.stateBefore)) =>
        Rank(turn.nextState) >= Rank(turn.stateBefore)

\* C10: the organizationId and conversationId of the context, as persisted and
\* as held by the client for the next turn, stay what they were at the start
\* of the conversation, whatever keys the extraction holds.
C10_IdentityImmutable ==
    /\ Get(clientCtx, "organizationId") = Str(OrgOfClient)
    /\ Truthy(clientConvId) => Get(clientCtx, "conversationId") = clientConvId
    /\ \A id \in DOMAIN db :
          Get(db[id].context, "organizationId") = Str(OrgOfClient)
    /\ req.kind = "turn" => Get(req.context, "organizationId") = Str(OrgOfClient)

\* the collaborator call of the last turn failed: an error was thrown around
\* it, or its text did not parse
ExtractionFailed == turn.outcome # "none" /\ turn.fault # ""

\* C12: a turn whose collaborator call failed is answered, with a successful
\* HTTP status, by success = false and an error object of code AI_ERROR or
\* AI_TIMEOUT with fallbackToForm = true, and the client then takes its
\* fallback-to-form path.
C12_ExtractionFailureFallsBack ==
    ExtractionFailed =>
        /\ resp.kind = "result" =>
              /\ ~resp.success
              /\ resp.status = 200
              /\ resp.error.t = "err"
              /\ resp.error.code \in {"AI_ERROR", "AI_TIMEOUT"}
              /\ resp.error.fallbackToForm
        /\ turn.applied => ui.fallback

\* a query of the sessions table returned an error in the last turn, and the
\* collaborator answered
StoreFailed == turn.outcome # "none" /\ turn.failedQueries # {} /\ turn.fault = ""

\* C13: a turn in which a query of the sessions table returned an error is
\* still answered with success = true and a next state; the list the failed
\* query was to fill is empty, and the result carries no error.
C13_StoreFailureIsEmptyList ==
    StoreFailed =>
        /\ Answered
        /\ turn.nextState.t = "str"
        /\ resp.kind = "result" =>
              /\ resp.success /\ resp.status = 200 /\ resp.error = Undefined
              /\ "alternativesFailed" \in turn.failedQueries =>
                    resp.response.alternatives = Arr(<<>>)
              /\ "broaderFailed" \in turn.failedQueries =>
                    resp.response.recommendations = Arr(<<>>)
              /\ ("matchingFailed" \in turn.failedQueries /\ variant # "V3") =>
                    resp.response.recommendations = Arr(<<>>)

\* the matching query failed although the table holds a session that would
\* have been recommended, and the turn was answered with an empty list
C13_Witness ==
    /\ StoreFailed /\ "matchingFailed" \in turn.failedQueries
    /\ resp.kind = "result" /\ resp.success
    /\ resp.response.recommendations = Arr(<<>>)

\* the merge of the generation that serves the turns: field by field
\* (index.ts:968-983, part_000:165-180) or by spread (index.ts:45, 1334,
\* part_001:98, part_002:146, part_003:154)
MergeOf(context, extractedData) ==
    IF variant \in {"P0", "V2"} THEN MergeTruthy(context, extractedData)
    ELSE Spread(context, extractedData)

\* a turn that merged its extraction into the context
Merged == turn.outcome \in {"ok", "selection", "unavailable", "full"}

\* C15: merging the extraction of a turn into the merged context once more
\* gives the merged context again.
C15_MergeIdempotent ==
    Merged =>
        /\ turn.updatedContext = MergeOf(turn.context, turn.extracted)
        /\ MergeOf(turn.updatedContext, turn.extracted) = turn.updatedContext

\* a turn merged days into a context that already held an age
C15_Witness ==
    /\ Merged
    /\ Truthy(Get(turn.context, "childAge"))
    /\ Truthy(Get(turn.extracted, "preferredDays"))
    /\ turn.updatedContext # turn.context

\* C16: a turn that was processed to an answer updates the conversations row
\* exactly once, with the state and the merged context the turn decided; a
\* turn that failed, and a turn that was rejected with the age prompt, does not
\* update the row.
C16_OneWritePerTurn ==
    (turn.outcome # "none" /\ turn.applied) =>
        turn.writes = IF Merged THEN 1 ELSE 0

\* the handler is at the await of the collaborator call that is never answered
AwaitingGemini == req.kind = "awaiting"

\* C17: every turn that was sent is answered with a turn result, and the
\* loading flag of the client returns to false.
C17_TurnCompletes ==
    /\ (req.kind # "none" /\ resp = NoResp) ~> (resp.kind = "result")
    /\ isLoading ~> ~isLoading

\* the turn ended in the catch block of the handler
Failed == turn.outcome = "error"

\* part_006:29-38 after a failed turn: the banner with the text the hook
\* throws, or the form
UiAfterFailure ==
    IF variant \in {"V1", "V3"}
    THEN [error |-> "AI service error", fallback |-> FALSE]
    ELSE [error |-> "", fallback |-> TRUE]

\* C18: the message of the error a failed turn caught is neither in the turn
\* result nor in what the chat shows, and what the chat shows after a failed
\* turn, until the next message is sent, does not depend on the error.
C18_FaultNotExposed ==
    Failed =>
        /\ resp.kind = "result" =>
               /\ resp.error # Str(turn.fault)
               /\ resp.error.t = "err" => resp.error.message # turn.fault
        /\ (turn.applied /\ ~isLoading) => (ui.error # turn.fault /\ ui = UiAfterFailure)

\* src/types/conversation.ts:1-11
ConversationState ==
    {"idle", "greeting", "collecting_child_info", "collecting_preferences",
     "showing_recommendations", "confirming_selection", "collecting_payment",
     "processing_payment", "confirmed", "error"}

Declared(state) == state.t = "str" /\ state.v \in ConversationState

\* C19: the nextState of every turn result, and the state of every row of the
\* conversations table, is one of the declared conversation states.
C19_NextStateDeclared ==
    /\ (resp.kind = "result" /\ resp.response # Undefined) =>
            Declared(resp.response.nextState)
    /\ \A c \in DOMAIN db : Declared(db[c].state)

\* the progress of the turn result before the step and the one after it obey
\* the order of their states
ProgressFollowsState ==
    LET before == turn.nextState
        after == turn'.nextState
    IN /\ after = before => turn'.progress = turn.progress
       /\ (Ordered(before) /\ Ordered(after)) =>
             /\ Rank(before) < Rank(after) => turn.progress < turn'.progress
             /\ Rank(after) < Rank(before) => turn'.progress < turn.progress

\* C20: the progress of a turn result lies in 0..100, and for two successive
\* turn results of a conversation it is the same when their nextState is the
\* same and greater for the one whose nextState is later in the order of the
\* states.
C20_ProgressOfState ==
    [][/\ Answered' => turn'.progress \in 0..100
       /\ (Answered /\ Answered') => ProgressFollowsState]_vars

\* the turn result answers a requested session that is not available
\* (index.ts:1402-1417, 81-95)
OffersAlternatives ==
    /\ resp.kind = "result"
    /\ resp.success
    /\ resp.response.alternatives # Undefined

\* C21: a turn result that carries fewer than 2 alternatives to the requested
\* session carries a recommend-waitlist signal, and one that carries 2 or more
\* does not.  The keys of the result are those of ResponseBody; a key the
\* handler does not set reads as undefined.
C21_WaitlistSignal ==
    OffersAlternatives =>
        (Truthy(Get(resp.response, "recommendWaitlist"))
            <=> Len(resp.response.alternatives.v) < 2)

\* the request names a program, a day or a time: a program, fewer than seven
\* days, or a time of day other than any
NamesSpecific(context) ==
    \/ Truthy(Get(context, "preferredProgram"))
    \/ /\ Truthy(Get(context, "preferredDays"))
       /\ Len(Get(context, "preferredDays").v) \in 1..6
    \/ TimeDereferenced(Get(context, "preferredTimeOfDay"))

\* C22: a turn runs the broader search or the search for alternatives only
\* after fetchMatchingSessions has returned no session in that turn and when
\* the merged context names a program, a day or a time.
C22_BroadenOnlyWhenSpecific ==
    (turn.outcome # "none" /\ turn.searches \cap {"broader", "alternatives"} # {}) =>
        /\ "matching" \in turn.searches
        /\ turn.matched = 0
        /\ NamesSpecific(turn.updatedContext)

\* the search for alternatives has run
AlternativesRan == fRun.fn = "fetchAlternativeSessions"

\* C23: every alternative returned is a session of the organization asked for
\* with enrolled_count < capacity, whatever the store made of the query's
\* filters.
C23_AlternativesAvailable ==
    AlternativesRan =>
        \A j \in DOMAIN fRun.alternatives :
            \E s \in InventoryRows :
                /\ s.id = fRun.alternatives[j].sessionId
                /\ Str(s.program.organization_id) = fCrit.organizationId
                /\ s.enrolled_count < s.capacity

\* the score of the relaxation strategy that yields session s for the days and
\* the time of day asked for: 90 for a day next to a day asked for, 85 for a
\* day asked for at another time of day, 50 for the program otherwise.  The
\* rows of the table carry no location, so no session is another location's.
StrategyScore(s) ==
    LET days == IF Truthy(fCrit.preferredDays) THEN fCrit.preferredDays.v ELSE <<>>
    IN IF /\ ~Includes(days, s.day_of_week)
          /\ \E i \in DOMAIN days : (s.day_of_week - days[i]) % 7 \in {1, 6}
       THEN 90
       ELSE IF Includes(days, s.day_of_week) /\ TimeOfDayRejects(fCrit.preferredTimeOfDay, s)
       THEN 85
       ELSE 50

\* the row of the table behind an alternative
RowOf(alternative) == CHOOSE s \in InventoryRows : s.id = alternative.sessionId

\* C24: every alternative carries the score of its strategy, the list is in
\* non-increasing order of score, and no session left out of the list has a
\* higher score than one that is in it.
C24_AlternativesRanked ==
    (AlternativesRan /\ ~fRun.failed) =>
        LET a == fRun.alternatives
        IN /\ \A j \in DOMAIN a : Get(a[j], "score") = Num(StrategyScore(RowOf(a[j])))
           /\ \A i, j \in DOMAIN a :
                 i < j => StrategyScore(RowOf(a[i])) >= StrategyScore(RowOf(a[j]))
           /\ \A s \in InventoryRows :
                 (/\ KeepAlternative(s, fCrit.organizationId, fCrit.childAge,
                                     fCrit.preferredProgram)
                  /\ s.status = "active" /\ s.enrolled_count < s.capacity
                  /\ \A j \in DOMAIN a : a[j].sessionId # s.id)
                 => \A j \in DOMAIN a : StrategyScore(RowOf(a[j])) >= StrategyScore(s)

-----------------------------------------------------------------------------
(* Two turns of one conversation in flight (SpecRace)                      *)

\* useConversation.sendMessage does not look at isLoading (part_004:66-72);
\* only handleSendMessage does (part_006:68), and onSelectSession calls
\* sendMessage directly (part_006:124-127).  Nothing in the function orders
\* the requests of one conversation.  req and resp hold one request and one
\* response per turn; turn.overlap records that the second message was sent
\* before the first turn was over.
RaceTurns == 1..2

\* what the collaborator extracts in these turns: one fact, the schema's other
\* keys null or absent (index.ts:893-918)
RaceExtractions ==
    { "childName" :> Str("Emma"),
      "childAge" :> Num(5),
      ("childName" :> Null) @@ ("childAge" :> Num(5)),
      ("childName" :> Str("Emma")) @@ ("childAge" :> Null) }

RaceNextStates == {Str("collecting_child_info"), Str("collecting_preferences")}

\* the state after initializeConversation inserted the row (part_004:31-64)
RaceInit ==
    /\ variant \in {"V2", "V3"}
    /\ inventory = SpecInventory
    /\ fCrit = NoCriteria
    /\ fOut = <<>>
    /\ fRun = [fn |-> "none", failed |-> FALSE]
    /\ clientConvId = Str("c1")
    /\ clientState = Str("greeting")
    /\ clientCtx = [conversationId |-> Str("c1"), organizationId |-> Str(OrgOfClient),
                    currentState |-> Str("greeting")]
    /\ isLoading = FALSE
    /\ db = "c1" :> [state |-> Str("greeting"),
                     context |-> [organizationId |-> Str(OrgOfClient),
                                  currentState |-> Str("greeting")]]
    /\ req = [i \in RaceTurns |-> NoReq]
    /\ resp = [i \in RaceTurns |-> NoResp]
    /\ turn = [outcome |-> "none", overlap |-> FALSE]
    /\ turns = 0
    /\ ui = NoUi

\* part_004:66-89: sendMessage up to the await; the callback closes over the
\* context of the render in which it was created
SendConcurrent ==
    /\ turns + 1 \in RaceTurns
    /\ LET i == turns + 1
       IN /\ req' = [req EXCEPT ![i] = [kind |-> "turn", conversationId |-> clientConvId,
                                        context |-> clientCtx, extracted |-> EmptyObj]]
          /\ turn' = [turn EXCEPT !.overlap = i = 2 /\ req[1].kind # "done"]
    /\ isLoading' = TRUE
    /\ turns' = turns + 1
    /\ UNCHANGED <<clientConvId, clientCtx, clientState, resp, db, ui>>
    /\ ClientFrame

\* the handler for a reply with a valid extraction and a collecting state:
\* index.ts:968-983 and 1039-1062 merge the truthy values, write the row and
\* return the extraction; index.ts:1333-1334 and 1447-1460 spread the
\* extraction over the request's context, write nothing and return the whole
\* context
HandleConcurrent ==
    \E i \in RaceTurns :
      /\ req[i].kind = "turn"
      /\ resp[i] = NoResp
      /\ \E e \in RaceExtractions, nextState \in RaceNextStates :
           LET updatedContext == IF variant = "V2" THEN MergeTruthy(req[i].context, e)
                                 ELSE Spread(req[i].context, e)
           IN /\ db' = IF variant = "V2"
                       THEN UpdateRow(db, req[i].conversationId,
                                      [state |-> nextState, context |-> updatedContext])
                       ELSE db
              /\ resp' = [resp EXCEPT ![i] =
                            TurnResult(200, TRUE,
                                ResponseBody("ai", nextState,
                                             IF variant = "V2" THEN e ELSE updatedContext,
                                             Null, 0),
                                Undefined)]
              /\ req' = [req EXCEPT ![i].extracted = e]
      /\ UNCHANGED <<variant, inventory, clientConvId, clientCtx, clientState, isLoading,
                     turn, turns, ui, filterVars>>

\* part_004:91-126: sendMessage after the await, for a successful result
ReceiveConcurrent ==
    \E i \in RaceTurns :
      /\ resp[i].kind = "result"
      /\ req[i].kind = "turn"
      /\ LET response == SendMessageToKai(resp[i])
             newState == response.response.nextState
             newContext == Spread(SetKey(req[i].context, "currentState", newState),
                                  response.response.extractedData)
         IN /\ clientState' = newState
            /\ clientCtx' = newContext
            /\ db' = UpdateRow(db, req[i].conversationId,
                               [state |-> newState, context |-> newContext])
      /\ req' = [req EXCEPT ![i].kind = "done"]
      /\ isLoading' = FALSE
      /\ UNCHANGED <<clientConvId, resp, turn, turns, ui>>
      /\ ClientFrame

RaceNext ==
    \/ SendConcurrent
    \/ HandleConcurrent
    \/ ReceiveConcurrent

SpecRace == RaceInit /\ [][RaceNext]_vars

\* the facts an extraction carries
FactsIn(e) == {k \in FactKeys : ~NullOrAbsent(Get(e, k))}

BothTurnsOver == \A i \in RaceTurns : req[i].kind = "done"

\* each turn extracted a fact, and the two turns no fact in common
DifferentFacts ==
    /\ FactsIn(req[1].extracted) # {}
    /\ FactsIn(req[2].extracted) # {}
    /\ FactsIn(req[1].extracted) \cap FactsIn(req[2].extracted) = {}

PersistedHoldsBoth ==
    \A i \in RaceTurns : \A k \in FactsIn(req[i].extracted) :
        Get(db["c1"].context, k) = req[i].extracted[k]

\* the two turns started from the same context and the row lacks a fact
LostUpdate ==
    /\ BothTurnsOver /\ DifferentFacts
    /\ turn.overlap /\ req[1].context = req[2].context
    /\ ~PersistedHoldsBoth

\* C25: when the two turns are serialized, the second starting from the
\* context the first produced, and each extracts a different fact, the row
\* of the conversation holds both facts once both turns are over.
C25_SerializedKeepsBoth ==
    (BothTurnsOver /\ DifferentFacts /\ ~turn.overlap) => PersistedHoldsBoth

-----------------------------------------------------------------------------
(* A conversation taken up after its first turns (SpecResume)              *)

\* contexts the hook holds after the first turns of a conversation: the child
\* is known, and the preferences are being collected, or sessions have been
\* shown, or one is being confirmed
ResumeContexts ==
    LET known(state) == [conversationId |-> Str("c1"), organizationId |-> Str(OrgOfClient),
                         currentState |-> Str(state), childName |-> Str("Emma"),
                         childAge |-> Num(5)]
        days == "preferredDays" :> Arr(<<3>>)
        tod == "preferredTimeOfDay" :> Str("morning")
    IN { known("collecting_preferences"),
         known("collecting_preferences") @@ days,
         known("collecting_preferences") @@ tod,
         known("showing_recommendations") @@ days @@ tod,
         known("confirming_selection") @@ days @@ tod }

\* part_004:108-123: the hook's state, its context and the row agree after a
\* turn; one more message is sent
ResumeInit ==
    /\ variant \in Variants
    /\ inventory = SpecInventory
    /\ fCrit = NoCriteria
    /\ fOut = <<>>
    /\ fRun = [fn |-> "none", failed |-> FALSE]
    /\ clientConvId = Str("c1")
    /\ clientCtx \in ResumeContexts
    /\ clientState = clientCtx.currentState
    /\ isLoading = FALSE
    /\ db = "c1" :> [state |-> clientCtx.currentState, context |-> clientCtx]
    /\ req = NoReq
    /\ resp = NoResp
    /\ turn = NoTurn
    /\ turns = MaxTurns - 1
    /\ ui = NoUi

ResumeNext ==
    \/ SendMessage
    \/ GeminiNeverAnswers
    \/ HandleP0
    \/ HandleP1
    \/ HandleP2
    \/ HandleP3
    \/ HandleV1
    \/ HandleV2
    \/ HandleV3
    \/ ReceiveResponse

SpecResume == ResumeInit /\ [][ResumeNext]_vars

\* the state the turn was processed in
StateOfTurn == Get(turn.context, "currentState")

\* the turn carries a selected session id that resolves to a session
SelectionEvent ==
    /\ Truthy(Get(turn.context, "selectedSessionId"))
    /\ \E i \in DOMAIN inventory : Str(inventory[i].id) = Get(turn.context, "selectedSessionId")

\* C26: a turn processed in showing_recommendations ends in
\* confirming_selection only when it carries a selection event, and a turn
\* without one leaves the state at showing_recommendations.
C26_SelectionNeeded ==
    (Answered /\ StateOfTurn = Str("showing_recommendations")) =>
        /\ turn.nextState = Str("confirming_selection") => SelectionEvent
        /\ ~SelectionEvent => turn.nextState = Str("showing_recommendations")

\* the text of the message says yes: the quick replies of confirming_selection
\* are 'Yes, sign up!' (part_003:393) and 'Confirm registration'
\* (index.ts:1355)
ExplicitConfirmation(message) ==
    \/ StrIncludes(ToLowerCase(message), <<"y", "e", "s">>)
    \/ StrIncludes(ToLowerCase(message), <<"c", "o", "n", "f", "i", "r", "m">>)

\* the handler has returned the result of a turn and the hook has not yet
\* taken it: req still holds the message
Returned == Answered /\ req.kind = "turn" /\ resp.kind = "result"

\* C27: a turn processed in confirming_selection ends in collecting_payment
\* only when its message is an explicit confirmation.
C27_ConfirmationNeeded ==
    (Returned /\ StateOfTurn = Str("confirming_selection")
              /\ turn.nextState = Str("collecting_payment"))
        => ExplicitConfirmation(req.message)

\* the schedule axes a context holds
AxesOf(context) ==
    {k \in {"preferredDays", "preferredTimeOfDay", "preferredTime"} :
        Truthy(Get(context, k))}

\* C28: a turn processed in collecting_preferences whose merged context holds
\* the child's age and at least one schedule axis ends in
\* showing_recommendations, whether the axis came with this turn or with an
\* earlier one.
C28_DecidedOnMergedContext ==
    (/\ turn.outcome = "ok"
     /\ StateOfTurn = Str("collecting_preferences")
     /\ Truthy(Get(turn.context, "childAge"))
     /\ Truthy(Get(turn.updatedContext, "childAge"))
     /\ AxesOf(turn.updatedContext) # {})
        => turn.nextState = Str("showing_recommendations")

\* C29: a turn result whose nextState is not showing_recommendations comes
\* from a turn that made no query of the sessions table, and its
\* recommendations are null.
C29_QueriesOnlyForRecommendations ==
    (/\ Answered
     /\ resp.kind = "result"
     /\ resp.success
     /\ resp.response.nextState # Str("showing_recommendations"))
        => /\ ~turn.queried
           /\ NullOrAbsent(resp.response.recommendations)

-----------------------------------------------------------------------------
(* The time of day of every start hour (SpecTimeOfDay)                     *)

\* the hours of the day
Hours == 0..23

\* sessions.start_time of a session that starts on the hour
StartTimeOf(h) ==
    (IF h < 10 THEN <<"0">> ELSE <<>>) \o IntToChars(h) \o <<":", "0", "0">>

\* a table of one available session of the program, day and age asked for,
\* starting at any hour, and a request for one time of day
TimeOfDayInit ==
    /\ variant = "V3"
    /\ \E h \in Hours :
         inventory = <<Session("s1", Program("org1", NameSoc, Range4to6), "active", 3, 10, 3,
                               StartTimeOf(h), 120)>>
    /\ \E tod \in {"morning", "afternoon", "evening"} :
         fCrit = [organizationId |-> Str("org1"), childAge |-> Num(5),
                  preferredDays |-> Arr(<<3>>), preferredTimeOfDay |-> Str(tod),
                  preferredProgram |-> Text(KeySoc)]
    /\ fOut = <<>>
    /\ fRun = [fn |-> "none", failed |-> FALSE]
    /\ ConvInit

\* part_003:258-347: extractDataFromMessage on a message that is the clock
\* time at which the session starts
RunExtractDataFromMessage ==
    /\ FreshRun
    /\ fRun' = [fn |-> "extractDataFromMessage", failed |-> FALSE,
                extracted |-> ExtractDataFromMessageP3(inventory[1].start_time, clientCtx)]
    /\ fOut' = <<>>
    /\ UNCHANGED <<variant, inventory, fCrit, convVars>>

TimeOfDayNext ==
    \/ RunFetchMatchingSessionsV3
    \/ RunFindRequestedSession
    \/ RunExtractDataFromMessage

SpecTimeOfDay == TimeOfDayInit /\ [][TimeOfDayNext]_vars

\* the start hour of the session of the table
StartHour == ParseInt(SplitHead(inventory[1].start_time)).v

\* the one time of day of an hour
BucketOf(h) ==
    CASE h \in 0..11 -> Str("morning")
      [] h \in 12..16 -> Str("afternoon")
      [] h \in 17..23 -> Str("evening")

\* C30: for every start hour the availability filter and the lookup of the
\* requested session accept the session for exactly one time of day, morning
\* below 12, afternoon from 12 to 16, evening from 17, and that is the time
\* of day the extraction derives from the same clock time.
C30_OneTimeOfDay ==
    /\ (fRun.fn = "fetchMatchingSessions.V3" /\ ~fRun.failed /\ ~fRun.thrown) =>
          (Len(fOut) = 1 <=> fCrit.preferredTimeOfDay = BucketOf(StartHour))
    /\ (fRun.fn = "findRequestedSession" /\ ~fRun.failed) =>
          (fRun.found <=> fCrit.preferredTimeOfDay = BucketOf(StartHour))
    /\ fRun.fn = "extractDataFromMessage" =>
          Get(fRun.extracted, "preferredTimeOfDay") = BucketOf(StartHour)

\* the filter has kept a session that starts at 16 for the afternoon
C30_Witness ==
    /\ fRun.fn = "fetchMatchingSessions.V3" /\ ~fRun.failed
    /\ StartHour = 16
    /\ fCrit.preferredTimeOfDay = Str("afternoon")
    /\ Len(fOut) = 1

-----------------------------------------------------------------------------
(* Tables with more matching sessions than are returned (SpecTop)          *)

\* sessions of one program on one day: four that are available, at two
\* times of day, and one that is full
TopPool ==
    { Session("s1", Program("org1", NameSoc, Range4to6), "active", 3, 10, 3, Time10, 120),
      Session("s10", Program("org1", NameSoc, Range4to6), "active", 0, 10, 3, Time14, 120),
      Session("s14", Program("org1", NameSoc, Range4to6), "active", 1, 10, 3, Time10, 120),
      Session("s15", Program("org1", NameSoc, Range4to6), "active", 5, 10, 3, Time14, 120),
      Session("s3", Program("org1", NameSoc, Range4to6), "active", 10, 10, 3, Time10, 120) }

TopRows == 4

\* the tables for these runs: TopRows rows of the pool in every order
TopInit ==
    /\ variant = "V3"
    /\ inventory \in { inv \in [1..TopRows -> TopPool] :
                          \A i, j \in 1..TopRows : i # j => inv[i].id # inv[j].id }
    /\ \E tod \in {Undefined, Str("morning"), Str("evening")} :
         fCrit = [organizationId |-> Str("org1"), childAge |-> Num(5),
                  preferredDays |-> Arr(<<3>>), preferredTimeOfDay |-> tod,
                  preferredProgram |-> Undefined]
    /\ fOut = <<>>
    /\ fRun = [fn |-> "none", failed |-> FALSE]
    /\ ConvInit

TopNext ==
    \/ RunFetchMatchingSessionsP0
    \/ RunFetchMatchingSessionsV2
    \/ RunFetchMatchingSessionsV3
    \/ RunFetchBroaderMatches

SpecTop == TopInit /\ [][TopNext]_vars

\* the position in the table of the row behind a projection
PositionOf(projection) == CHOOSE p \in DOMAIN inventory : inventory[p].id = projection.sessionId

\* the session passes the filter of the function that ran
MatchesRun(s) ==
    CASE fRun.fn = "fetchMatchingSessions.P0" ->
            KeepP0(s, fCrit.childAge, fCrit.preferredDays, fCrit.preferredTimeOfDay)
      [] fRun.fn = "fetchMatchingSessions.V2" ->
            KeepV2(s, fCrit.organizationId, fCrit.childAge, fCrit.preferredDays,
                   fCrit.preferredTimeOfDay)
      [] fRun.fn = "fetchMatchingSessions.V3" ->
            KeepV3(s, fCrit.organizationId, fCrit.childAge, fCrit.preferredDays,
                   fCrit.preferredTimeOfDay, fCrit.preferredProgram)
      [] fRun.fn = "fetchBroaderMatches" ->
            KeepBroader(s, fCrit.organizationId, fCrit.childAge, fCrit.preferredDays)

FilterReturned == FilterRan /\ ~fRun.failed /\ ~fRun.thrown

\* C31: a fetch function returns at most 3 sessions, in the order of the
\* table, and leaves out no matching session that stands before one it
\* returns.
C31_FirstThreeInOrder ==
    FilterReturned =>
        /\ Len(fOut) <= 3
        /\ \A i, j \in DOMAIN fOut : i < j => PositionOf(fOut[i]) < PositionOf(fOut[j])
        /\ \A p \in DOMAIN inventory :
              (MatchesRun(inventory[p]) /\ \A j \in DOMAIN fOut : PositionOf(fOut[j]) # p)
                 => \A j \in DOMAIN fOut : PositionOf(fOut[j]) < p

-----------------------------------------------------------------------------
(* The issue reported for the requested session (SpecFilter)               *)

\* the row of the table the lookup reported
FoundRow == CHOOSE s \in InventoryRows : s.id = fRun.session.sessionId

\* the age range of the row is a well-formed [min,max) text
RangeWellFormed(s) == s.program.age_range \in {Range4to6, Range6to12}

\* the child's age lies in the well-formed range of the row
AgeInRange(s) ==
    /\ RangeWellFormed(s)
    /\ ExpectedMin(s.program.age_range) <= fCrit.childAge.v
    /\ fCrit.childAge.v < ExpectedMax(s.program.age_range)

\* C32: the issue reported for the requested session is 'full' exactly when
\* the session is full, 'wrong_age' exactly when it is not full and the age is
\* outside its range, and none only when the session is not full and its age
\* range is well-formed and contains the age.
C32_IssueNamesConstraint ==
    (fRun.fn = "findRequestedSession" /\ fRun.found) =>
        /\ fRun.issue = Str("full") <=> IsFull(FoundRow)
        /\ fRun.issue = Str("wrong_age") <=>
              (~IsFull(FoundRow) /\ RangeWellFormed(FoundRow) /\ ~AgeInRange(FoundRow))
        /\ fRun.issue = Null => (~IsFull(FoundRow) /\ AgeInRange(FoundRow))

-----------------------------------------------------------------------------
(* Two conversations side by side (SpecTwo)                                *)

\* two hooks, each with the conversation it created; the function and the
\* conversations table are what they share.  Every variable of the hook and
\* every request and response is kept per conversation; turn keeps, per
\* conversation, the replies of the collaborator in its turns so far.
Conversations == {"c1", "c2"}

ConvTurns == 2

\* the context of the hook and of the row after initializeConversation
\* (part_004:31-64)
HookContext(c) ==
    [conversationId |-> Str(c), organizationId |-> Str(OrgOfClient),
     currentState |-> Str("greeting")]

RowContext == [organizationId |-> Str(OrgOfClient), currentState |-> Str("greeting")]

\* what the collaborator extracts in these turns
TwoExtractions ==
    { "childName" :> Str("Emma"),
      ("childName" :> Null) @@ ("childAge" :> Num(5)) }

TwoInit ==
    /\ variant \in {"V2", "V3"}
    /\ inventory = SpecInventory
    /\ fCrit = NoCriteria
    /\ fOut = <<>>
    /\ fRun = [fn |-> "none", failed |-> FALSE]
    /\ clientConvId = [c \in Conversations |-> Str(c)]
    /\ clientState = [c \in Conversations |-> Str("greeting")]
    /\ clientCtx = [c \in Conversations |-> HookContext(c)]
    /\ isLoading = [c \in Conversations |-> FALSE]
    /\ db = [c \in Conversations |-> [state |-> Str("greeting"), context |-> RowContext]]
    /\ req = [c \in Conversations |-> NoReq]
    /\ resp = [c \in Conversations |-> NoResp]
    /\ turn = [c \in Conversations |-> <<>>]
    /\ turns = [c \in Conversations |-> 0]
    /\ ui = NoUi

\* part_006:66-74 and part_004:66-89 in one of the hooks
SendIn ==
    \E c \in Conversations :
      /\ ~isLoading[c]
      /\ req[c] = NoReq
      /\ turns[c] < ConvTurns
      /\ req' = [req EXCEPT ![c] = [kind |-> "turn", conversationId |-> clientConvId[c],
                                    context |-> clientCtx[c]]]
      /\ isLoading' = [isLoading EXCEPT ![c] = TRUE]
      /\ turns' = [turns EXCEPT ![c] = @ + 1]
      /\ UNCHANGED <<clientConvId, clientCtx, clientState, resp, db, turn, ui>>
      /\ ClientFrame

\* the handler for a reply with a valid extraction and a collecting state
\* (index.ts:968-983 and 1039-1062; index.ts:1333-1334 and 1447-1460), run
\* for the request of one conversation
HandleIn ==
    \E c \in Conversations :
      /\ req[c].kind = "turn"
      /\ resp[c] = NoResp
      /\ \E e \in TwoExtractions, nextState \in RaceNextStates :
           LET updatedContext == IF variant = "V2" THEN MergeTruthy(req[c].context, e)
                                 ELSE Spread(req[c].context, e)
           IN /\ db' = IF variant = "V2"
                       THEN UpdateRow(db, req[c].conversationId,
                                      [state |-> nextState, context |-> updatedContext])
                       ELSE db
              /\ resp' = [resp EXCEPT ![c] =
                            TurnResult(200, TRUE,
                                ResponseBody("ai", nextState,
                                             IF variant = "V2" THEN e ELSE updatedContext,
                                             Null, 0),
                                Undefined)]
              /\ turn' = [turn EXCEPT ![c] =
                            Append(@, [extractedData |-> e, nextState |-> nextState])]
      /\ UNCHANGED <<variant, inventory, clientConvId, clientCtx, clientState, isLoading,
                     req, turns, ui, filterVars>>

\* part_004:91-126 in the hook that sent the request
ReceiveIn ==
    \E c \in Conversations :
      /\ resp[c].kind = "result"
      /\ LET response == SendMessageToKai(resp[c])
             newState == response.response.nextState
             newContext == Spread(SetKey(req[c].context, "currentState", newState),
                                  response.response.extractedData)
         IN /\ clientState' = [clientState EXCEPT ![c] = newState]
            /\ clientCtx' = [clientCtx EXCEPT ![c] = newContext]
            /\ db' = UpdateRow(db, req[c].conversationId,
                               [state |-> newState, context |-> newContext])
      /\ req' = [req EXCEPT ![c] = NoReq]
      /\ resp' = [resp EXCEPT ![c] = NoResp]
      /\ isLoading' = [isLoading EXCEPT ![c] = FALSE]
      /\ UNCHANGED <<clientConvId, turn, turns, ui>>
      /\ ClientFrame

TwoNext ==
    \/ SendIn
    \/ HandleIn
    \/ ReceiveIn

SpecTwo == TwoInit /\ [][TwoNext]_vars

\* the context the hook of a conversation holds after the replies of its own
\* turns, taken one after the other with no other conversation around
RECURSIVE ContextAlone(_, _)
ContextAlone(c, replies) ==
    IF replies = <<>> THEN HookContext(c)
    ELSE LET before == ContextAlone(c, SubSeq(replies, 1, Len(replies) - 1))
             last == replies[Len(replies)]
             returned == IF variant = "V2" THEN last.extractedData
                         ELSE Spread(before, last.extractedData)
         IN Spread(SetKey(before, "currentState", last.nextState), returned)

\* the row of a conversation after the turns it has completed on its own
RowAlone(c) ==
    IF turn[c] = <<>>
    THEN [state |-> Str("greeting"), context |-> RowContext]
    ELSE [state |-> turn[c][Len(turn[c])].nextState, context |-> ContextAlone(c, turn[c])]

\* no turn of the conversation is in flight
AtRest(c) == req[c] = NoReq

\* C33: the row of a conversation changes only in a step of one of its own
\* turns, and whenever the conversation has no turn in flight its row is the
\* one its own turns produce when they run alone.
C33_ConversationsIndependent ==
    /\ [][\A c \in Conversations :
            db'[c] # db[c] => (resp'[c] # resp[c] /\ \A d \in Conversations \ {c} :
                                                        resp'[d] = resp[d] /\ req'[d] = req[d])]_vars
    /\ [](\A c \in Conversations : AtRest(c) => db[c] = RowAlone(c))

\* both conversations have completed turns with different replies, one of
\* them while a turn of the other was in flight
C33_Witness ==
    /\ AtRest("c1") /\ turn["c1"] # <<>>
    /\ req["c2"].kind = "turn" /\ resp["c2"].kind = "result"
    /\ turn["c1"][1] # turn["c2"][1]
    /\ db["c1"] # db["c2"]

-----------------------------------------------------------------------------
(* Sessions whose counts and status disagree (SpecOver)                    *)

\* status, enrolled_count and capacity are three columns nothing ties
\* together: a session enrolled beyond its capacity, active or marked full,
\* and one marked full with places left, next to an ordinary one
OverPool ==
    { Session("o1", Program("org1", NameSoc, Range4to6), "active", 12, 10, 3, Time10, 120),
      Session("o2", Program("org1", NameSoc, Range4to6), "full", 12, 10, 3, Time10, 120),
      Session("o3", Program("org1", NameSoc, Range4to6), "full", 8, 10, 3, Time10, 120),
      Session("o4", Program("org1", NameSoc, Range4to6), "active", 3, 10, 3, Time10, 120) }

OverRows == 2

OverInit ==
    /\ variant = "V3"
    /\ inventory \in UNION { { inv \in [1..m -> OverPool] :
                                 \A i, j \in 1..m : i # j => inv[i].id # inv[j].id } :
                              m \in 1..OverRows }
    /\ \E tod \in {Undefined, Str("morning")} :
         fCrit = [organizationId |-> Str("org1"), childAge |-> Num(5),
                  preferredDays |-> Arr(<<3>>), preferredTimeOfDay |-> tod,
                  preferredProgram |-> Text(KeySoc)]
    /\ fOut = <<>>
    /\ fRun = [fn |-> "none", failed |-> FALSE]
    /\ ConvInit

SpecOver == OverInit /\ [][FilterNext]_vars

\* the session projections the function that ran has returned
ProjectionsReturned ==
    { fOut[j] : j \in DOMAIN fOut }
    \cup (IF fRun.fn \in Lookups /\ fRun.found THEN {fRun.session} ELSE {})
    \cup (IF fRun.fn = "fetchAlternativeSessions"
          THEN { fRun.alternatives[j] : j \in DOMAIN fRun.alternatives } ELSE {})

\* C34: every session projection returned has spotsRemaining = capacity -
\* enrolledCount and spotsRemaining >= 0.
C34_SpotsRemaining ==
    \A projection \in ProjectionsReturned :
        /\ projection.spotsRemaining = projection.capacity - projection.enrolledCount
        /\ projection.spotsRemaining >= 0

-----------------------------------------------------------------------------
(* The chat window: the ways the user dispatches a turn                    *)

\* ChatInterface hands every input to the hook's sendMessage.  The text box,
\* the Enter key, a quick reply and the sign-up button of a detail modal go
\* through handleSendMessage, which looks at isLoading (part_006:66-74,
\* 117-134); the select button of a session card calls sendMessage itself
\* (part_006:124-128), and sendMessage looks at conversationId only
\* (part_004:66-72).  req is the sequence of turns dispatched and not yet
\* applied; ui.cards says that a message with session cards is on screen.
ChatTurns == 3

GuardedInputs == {"send", "enter", "quickReply", "signUp"}

\* MessageBubble draws the cards of a message whose metadata has a non-empty
\* recommendations list (part_007:75-86).  The hook that copies the turn
\* result's recommendations into the metadata of the message is not among the
\* sources (part_004:105-113 copies quickReplies and extractedData only); the
\* result's recommendations are what the window shows as cards.
CardsShown(cards, recommended) == cards \/ recommended

\* the window of a conversation that has been created (part_004:31-64)
ChatInit ==
    /\ variant \in {"V2", "V3"}
    /\ inventory = SpecInventory
    /\ fCrit = NoCriteria
    /\ fOut = <<>>
    /\ fRun = [fn |-> "none", failed |-> FALSE]
    /\ clientConvId = Str("c1")
    /\ clientState = Str("greeting")
    /\ clientCtx = [conversationId |-> Str("c1"), organizationId |-> Str(OrgOfClient),
                    currentState |-> Str("greeting")]
    /\ isLoading = FALSE
    /\ db = "c1" :> [state |-> Str("greeting"),
                     context |-> [organizationId |-> Str(OrgOfClient),
                                  currentState |-> Str("greeting")]]
    /\ req = <<>>
    /\ resp = NoResp
    /\ turn = [dispatchedBy |-> "none", inFlightBefore |-> 0]
    /\ turns = 0
    /\ ui = [cards |-> FALSE]

\* part_004:66-89: sendMessage up to the await, called from the window
Dispatch(via) ==
    /\ Truthy(clientConvId)
    /\ turns < ChatTurns
    /\ req' = Append(req, [via |-> via, answered |-> FALSE, recommended |-> FALSE])
    /\ isLoading' = TRUE
    /\ turns' = turns + 1
    /\ turn' = [dispatchedBy |-> via, inFlightBefore |-> Len(req)]
    /\ UNCHANGED <<clientConvId, clientCtx, clientState, resp, db, ui>>
    /\ ClientFrame

\* part_006:66-74 handleSendMessage, reached from the send button, the Enter
\* key (76-81), onQuickReply (121-123) and onSignUp (130-133); the sign-up
\* button belongs to a session card
HandleSendMessage ==
    \E via \in GuardedInputs :
      /\ ~isLoading
      /\ via = "signUp" => ui.cards
      /\ Dispatch(via)

\* part_006:124-128 onSelectSession: sendMessage is called whatever isLoading
OnSelectSession ==
    /\ ui.cards
    /\ Dispatch("select")

\* the function answers one of the turns in flight, with recommendations or
\* without
AnswerTurn ==
    /\ \E i \in DOMAIN req, recommended \in BOOLEAN :
         /\ ~req[i].answered
         /\ req' = [req EXCEPT ![i] = [@ EXCEPT !.answered = TRUE,
                                                !.recommended = recommended]]
    /\ UNCHANGED <<clientConvId, clientCtx, clientState, isLoading, resp, db, turn, turns, ui>>
    /\ ClientFrame

\* part_004:91-139: sendMessage after the await: the result is applied, the
\* message is added to the list and isLoading is cleared
ApplyResult ==
    /\ \E i \in DOMAIN req :
         /\ req[i].answered
         /\ ui' = [ui EXCEPT !.cards = CardsShown(@, req[i].recommended)]
         /\ req' = [j \in 1..(Len(req) - 1) |-> IF j < i THEN req[j] ELSE req[j + 1]]
    /\ isLoading' = FALSE
    /\ UNCHANGED <<clientConvId, clientCtx, clientState, resp, db, turn, turns>>
    /\ ClientFrame

ChatNext ==
    \/ HandleSendMessage
    \/ OnSelectSession
    \/ AnswerTurn
    \/ ApplyResult

SpecChat == ChatInit /\ [][ChatNext]_vars

-----------------------------------------------------------------------------
(* The state after a turn has been applied                                  *)

\* C36: after every successful turn applied by the hook, the context's
\* currentState, the hook's state and the state column of the conversation
\* record all equal the nextState of the turn result, whatever extractedData
\* the function returned.
C36_StateAgreesWithResult ==
    (Applied /\ turn.writes > 0) =>
        /\ clientState = turn.nextState
        /\ db["c1"].state = turn.nextState
        /\ Get(clientCtx, "currentState") = turn.nextState
        /\ Get(db["c1"].context, "currentState") = turn.nextState

-----------------------------------------------------------------------------
(* The requested session among several candidates                          *)

\* a row the request names: the program keyword, the day and the time of day
\* of the criteria, in the organization of the criteria
NamedByCriteria(s) ==
    /\ Truthy(fCrit.preferredProgram)
    /\ RequestedMatch(s, fCrit.organizationId, fCrit.preferredDays,
                      fCrit.preferredTimeOfDay, fCrit.preferredProgram)

\* a row that is open to the child of the criteria
AvailableForChild(s) ==
    /\ s.status = "active"
    /\ s.start_date >= Today
    /\ ~IsFull(s)
    /\ fCrit.childAge.t = "num"
    /\ AgeInRange(s)

\* C37: when the inventory holds a session that matches the requested program
\* keyword, day and time of day and is available for the child's age, the
\* requested-session check does not report an issue (full or wrong_age), in
\* whatever order the candidates come.
C37_AvailableMatchWins ==
    (/\ fRun.fn = "findRequestedSession"
     /\ ~fRun.failed
     /\ \E i \in DOMAIN inventory :
           NamedByCriteria(inventory[i]) /\ AvailableForChild(inventory[i]))
        => ~(fRun.found /\ Truthy(fRun.issue))

-----------------------------------------------------------------------------
(* A turn for a selected session                                            *)

\* the ids a request can name: the rows of the inventory
SelectableIds == { inventory[i].id : i \in DOMAIN inventory }

\* part_006:124-128: the select button of a card sends the message with
\* selectedSessionId, which reaches the function in the request's context
\* (index.ts:1337); the child and the preferences are known by then
SelectContexts ==
    { [conversationId |-> Str("c1"), organizationId |-> Str(OrgOfClient),
       currentState |-> Str("showing_recommendations"), childName |-> Str("Emma"),
       childAge |-> Num(5), preferredDays |-> Arr(<<3>>),
       selectedSessionId |-> Str(id)] : id \in {"s1", "s2", "s3", "s4"} }

SelectInit ==
    /\ variant \in Variants
    /\ inventory = SpecInventory
    /\ fCrit = NoCriteria
    /\ fOut = <<>>
    /\ fRun = [fn |-> "none", failed |-> FALSE]
    /\ clientConvId = Str("c1")
    /\ clientCtx \in SelectContexts
    /\ clientState = clientCtx.currentState
    /\ isLoading = FALSE
    /\ db = "c1" :> [state |-> clientCtx.currentState, context |-> clientCtx]
    /\ req = NoReq
    /\ resp = NoResp
    /\ turn = NoTurn
    /\ turns = MaxTurns - 1
    /\ ui = NoUi

SpecSelect == SelectInit /\ [][ResumeNext]_vars

\* the row of the inventory a projection was made of
SelectedRow(projection) == CHOOSE s \in InventoryRows : s.id = projection.sessionId

\* the row may be confirmed for the child of the context
Confirmable(s, context) ==
    /\ Str(s.program.organization_id) = Get(context, "organizationId")
    /\ s.status = "active"
    /\ s.enrolled_count < s.capacity
    /\ s.start_date >= Today
    /\ s.program.age_range \in {Range4to6, Range6to12}
    /\ ExpectedMin(s.program.age_range) <= Get(context, "childAge").v
    /\ Get(context, "childAge").v < ExpectedMax(s.program.age_range)

\* C38: a turn result with nextState confirming_selection carries a session
\* only if the session's program belongs to the context's organization, the
\* session is active with enrolled_count < capacity, it does not start in the
\* past and its age range contains the child's age.
C38_SelectionIsConfirmable ==
    (/\ resp.kind = "result"
     /\ resp.success
     /\ resp.response.nextState = Str("confirming_selection")
     /\ resp.response.recommendations.t = "arr")
        => \A i \in DOMAIN resp.response.recommendations.v :
              Confirmable(SelectedRow(resp.response.recommendations.v[i]), req.context)

-----------------------------------------------------------------------------
(* Starting the conversation over                                           *)

\* resetConversation clears the messages, the state and the context and
\* calls initializeConversation (part_004:154-164); the hook's conversationId
\* keeps the previous id until the insert of the new row has returned
\* (part_004:54-55).  turn.reset says that the reset was called, turn.creating
\* that the insert is under way.
ResetTurns == 2

\* the context resetConversation sets (part_004:157-162)
ClearedContext ==
    [conversationId |-> Str(""), organizationId |-> Str(OrgOfClient),
     currentState |-> Str("greeting")]

\* a conversation c1 in which the child's name has been collected
ResetInit ==
    /\ variant \in {"V2", "V3"}
    /\ inventory = SpecInventory
    /\ fCrit = NoCriteria
    /\ fOut = <<>>
    /\ fRun = [fn |-> "none", failed |-> FALSE]
    /\ clientConvId = Str("c1")
    /\ clientState = Str("collecting_child_info")
    /\ clientCtx = [conversationId |-> Str("c1"), organizationId |-> Str(OrgOfClient),
                    currentState |-> Str("collecting_child_info"),
                    childName |-> Str("Emma")]
    /\ isLoading = FALSE
    /\ db = "c1" :> [state |-> Str("collecting_child_info"),
                     context |-> [organizationId |-> Str(OrgOfClient),
                                  currentState |-> Str("collecting_child_info"),
                                  childName |-> Str("Emma")]]
    /\ req = NoReq
    /\ resp = NoResp
    /\ turn = [reset |-> FALSE, creating |-> FALSE]
    /\ turns = 0
    /\ ui = NoUi

\* part_004:154-164 up to the await of the insert in initializeConversation
ResetConversation ==
    /\ ~turn.reset
    /\ clientState' = Str("greeting")
    /\ clientCtx' = ClearedContext
    /\ turn' = [reset |-> TRUE, creating |-> TRUE]
    /\ UNCHANGED <<clientConvId, isLoading, req, resp, db, turns, ui>>
    /\ ClientFrame

\* part_004:31-64: initializeConversation after the await: the insert
\* returned the new row, or an error
ConversationCreated ==
    /\ turn.creating
    /\ \E inserted \in BOOLEAN :
         IF inserted
         THEN /\ db' = ("c2" :> [state |-> Str("greeting"),
                                 context |-> [organizationId |-> Str(OrgOfClient),
                                              currentState |-> Str("greeting")]]) @@ db
              /\ clientConvId' = Str("c2")
              /\ clientCtx' = [conversationId |-> Str("c2"),
                               organizationId |-> Str(OrgOfClient),
                               currentState |-> Str("greeting")]
              /\ ui' = ui
         ELSE /\ ui' = [ui EXCEPT !.error = "insert failed"]
              /\ UNCHANGED <<db, clientConvId, clientCtx>>
    /\ turn' = [turn EXCEPT !.creating = FALSE]
    /\ UNCHANGED <<clientState, isLoading, req, resp, turns>>
    /\ ClientFrame

\* part_006:66-74 and part_004:66-89: a message is sent with the hook's
\* conversationId and context as they are
SendAround ==
    /\ ~isLoading
    /\ Truthy(clientConvId)
    /\ req = NoReq
    /\ turns < ResetTurns
    /\ req' = [kind |-> "turn", conversationId |-> clientConvId, context |-> clientCtx,
               afterReset |-> turn.reset]
    /\ isLoading' = TRUE
    /\ turns' = turns + 1
    /\ UNCHANGED <<clientConvId, clientCtx, clientState, resp, db, turn, ui>>
    /\ ClientFrame

\* the handler, as in HandleIn: index.ts:968-983 and 1039-1062 write the row
\* of the request's conversationId; index.ts:1333-1334 and 1447-1460 write
\* nothing and return the whole context
HandleAround ==
    /\ req.kind = "turn"
    /\ resp = NoResp
    /\ \E e \in TwoExtractions, nextState \in RaceNextStates :
         LET updatedContext == IF variant = "V2" THEN MergeTruthy(req.context, e)
                               ELSE Spread(req.context, e)
         IN /\ db' = IF variant = "V2"
                     THEN UpdateRow(db, req.conversationId,
                                    [state |-> nextState, context |-> updatedContext])
                     ELSE db
            /\ resp' = TurnResult(200, TRUE,
                          ResponseBody("ai", nextState,
                                       IF variant = "V2" THEN e ELSE updatedContext,
                                       Null, 0),
                          Undefined)
    /\ UNCHANGED <<variant, inventory, clientConvId, clientCtx, clientState, isLoading,
                   req, turn, turns, ui, filterVars>>

\* part_004:91-126: sendMessage after the await, with the conversationId and
\* the context the callback closed over
ReceiveAround ==
    /\ resp.kind = "result"
    /\ LET response == SendMessageToKai(resp)
           newState == response.response.nextState
           newContext == Spread(SetKey(req.context, "currentState", newState),
                                response.response.extractedData)
       IN /\ clientState' = newState
          /\ clientCtx' = newContext
          /\ db' = UpdateRow(db, req.conversationId,
                             [state |-> newState, context |-> newContext])
    /\ req' = NoReq
    /\ resp' = NoResp
    /\ isLoading' = FALSE
    /\ UNCHANGED <<clientConvId, turn, turns, ui>>
    /\ ClientFrame

ResetNext ==
    \/ ResetConversation
    \/ ConversationCreated
    \/ SendAround
    \/ HandleAround
    \/ ReceiveAround

SpecReset == ResetInit /\ [][ResetNext]_vars

\* C39: after resetConversation no turn is dispatched with the previous
\* conversation's id and no write is made to its record: a message sent after
\* the reset goes to the new conversation with a context that holds no fact
\* of the previous one, for every interleaving of the reset, the creation of
\* the new conversation and sendMessage.
C39_ResetLeavesOldConversation ==
    /\ []((req.kind = "turn" /\ req.afterReset) =>
             /\ req.conversationId = Str("c2")
             /\ Get(req.context, "childName") # Str("Emma"))
    /\ [][turn.reset => db'["c1"] = db["c1"]]_vars

====
